---------------------------- MODULE Spec2Model ----------------------------
(***************************************************************************)
(* ENSO metrics: the catalogs of EnsoCollectionsLib.py (collections,       *)
(* reference observations, reference regions, CMIP variables) and the      *)
(* metric functions and ComputeMetric dispatcher of EnsoMetricsLib.py.     *)
(*                                                                         *)
(* Python values are modelled as follows.  A dict is a function with a     *)
(* string domain, a list or tuple a sequence.  A call either returns a     *)
(* value or raises: Return(v) / Raise(kind, arg).  Degrees of latitude and *)
(* longitude are kept in tenths of a degree so that they are integers.     *)
(* Free-text entries that no operation reads (web sites, file-name         *)
(* templates, regridding and smoothing parameters, cf names) are left out  *)
(* of the catalog tables.                                                  *)
(***************************************************************************)
EXTENDS Integers, Sequences, FiniteSets, TLC

VARIABLES last, calls, first

vars == <<last, calls, first>>

\* ------------------------------------------------------------------------
\* Python call outcomes
\* ------------------------------------------------------------------------

NoExc == [kind |-> "", arg |-> ""]

Return(v) == [outcome |-> "returned", exc |-> NoExc, value |-> v]

Raise(kind, arg) == [outcome |-> "raised", exc |-> [kind |-> kind, arg |-> arg], value |-> <<>>]

\* The default argument True of the catalog accessors, and a string argument.
PyTrue == [kind |-> "bool", id |-> ""]

PyStr(id) == [kind |-> "str", id |-> id]

\* ------------------------------------------------------------------------
\* Static tables of EnsoCollectionsLib.py
\* ------------------------------------------------------------------------

metrics_collection ==
  ("ENSO_perf" :> [long_name |-> "Metrics Collection for ENSO performance",
     metrics_list |->
       ("BiasPrLatRmse" :> [variables |-> <<"pr">>, regions |-> ("pr" :> "nino3_LatExt"), obs_name |-> ("pr" :> <<"ERA-Interim", "GPCPv2.3">>)]
        @@ "BiasPrLonRmse" :> [variables |-> <<"pr">>, regions |-> ("pr" :> "equatorial_pacific"), obs_name |-> ("pr" :> <<"ERA-Interim", "GPCPv2.3">>)]
        @@ "BiasSstLonRmse" :> [variables |-> <<"sst">>, regions |-> ("sst" :> "equatorial_pacific"), obs_name |-> ("sst" :> <<"ERA-Interim", "HadISST", "Tropflux">>)]
        @@ "BiasTauxLonRmse" :> [variables |-> <<"taux">>, regions |-> ("taux" :> "equatorial_pacific"), obs_name |-> ("taux" :> <<"ERA-Interim", "Tropflux">>)]
        @@ "SeasonalPrLatRmse" :> [variables |-> <<"pr">>, regions |-> ("pr" :> "nino3_LatExt"), obs_name |-> ("pr" :> <<"ERA-Interim", "GPCPv2.3">>)]
        @@ "SeasonalPrLonRmse" :> [variables |-> <<"pr">>, regions |-> ("pr" :> "equatorial_pacific"), obs_name |-> ("pr" :> <<"ERA-Interim", "GPCPv2.3">>)]
        @@ "SeasonalSstLonRmse" :> [variables |-> <<"sst">>, regions |-> ("sst" :> "equatorial_pacific"), obs_name |-> ("sst" :> <<"ERA-Interim", "HadISST", "Tropflux">>)]
        @@ "SeasonalTauxLonRmse" :> [variables |-> <<"taux">>, regions |-> ("taux" :> "equatorial_pacific"), obs_name |-> ("sst" :> <<"ERA-Interim", "Tropflux">>)]
        @@ "EnsoAmpl" :> [variables |-> <<"sst">>, regions |-> ("sst" :> "nino3.4"), obs_name |-> ("sst" :> <<"ERA-Interim", "HadISST", "Tropflux">>), metric_computation |-> "abs_relative_difference"]
        @@ "EnsoDuration" :> [variables |-> <<"sst">>, regions |-> ("sst" :> "nino3.4"), obs_name |-> ("sst" :> <<"ERA-Interim", "HadISST", "Tropflux">>), event_definition |-> [region_ev |-> "nino3.4", season_ev |-> "DEC"], metric_computation |-> "abs_relative_difference"]
        @@ "EnsoSeasonality" :> [variables |-> <<"sst">>, regions |-> ("sst" :> "nino3.4"), obs_name |-> ("sst" :> <<"ERA-Interim", "HadISST", "Tropflux">>), metric_computation |-> "abs_relative_difference"]
        @@ "EnsoSstLonRmse" :> [variables |-> <<"sst">>, regions |-> ("sst" :> "equatorial_pacific"), obs_name |-> ("sst" :> <<"ERA-Interim", "HadISST", "Tropflux">>), event_definition |-> [region_ev |-> "nino3.4", season_ev |-> "DEC"]]
        @@ "EnsoSstDiversity_2" :> [variables |-> <<"sst">>, regions |-> ("sst" :> "equatorial_pacific"), obs_name |-> ("sst" :> <<"ERA-Interim", "HadISST", "Tropflux">>), event_definition |-> [region_ev |-> "nino3.4", season_ev |-> "DEC"], metric_computation |-> "abs_relative_difference"]
        @@ "EnsoSstSkew" :> [variables |-> <<"sst">>, regions |-> ("sst" :> "nino3.4"), obs_name |-> ("sst" :> <<"ERA-Interim", "HadISST", "Tropflux">>), metric_computation |-> "abs_relative_difference"]
        @@ "EnsoSstTsRmse" :> [variables |-> <<"sst">>, regions |-> ("sst" :> "nino3.4"), obs_name |-> ("sst" :> <<"ERA-Interim", "HadISST", "Tropflux">>), event_definition |-> [region_ev |-> "nino3.4", season_ev |-> "DEC"]]),
     common_collection_parameters |-> [detrending |-> [method |-> "linear"], frequency |-> "monthly", min_time_steps |-> 12, normalization |-> FALSE, project_interpreter |-> "CMIP"],
     plot_order |-> <<"BiasPrLatRmse", "BiasPrLonRmse", "BiasSstLonRmse", "BiasTauxLonRmse", "SeasonalPrLatRmse", "SeasonalPrLonRmse", "SeasonalSstLonRmse", "SeasonalTauxLonRmse", "EnsoSstLonRmse", "EnsoSstTsRmse", "EnsoAmpl", "EnsoSeasonality", "EnsoSstSkew", "EnsodDuration", "EnsoSstDiversity_2">>,
     description |-> "Describe which science question this collection is about"]
  @@ "ENSO_tel" :> [long_name |-> "Metrics Collection for ENSO teleconnections",
     metrics_list |->
       ("EnsoAmpl" :> [variables |-> <<"sst">>, regions |-> ("sst" :> "nino3.4"), obs_name |-> ("sst" :> <<"ERA-Interim", "HadISST", "Tropflux">>), metric_computation |-> "abs_relative_difference"]
        @@ "EnsoSeasonality" :> [variables |-> <<"sst">>, regions |-> ("sst" :> "nino3.4"), obs_name |-> ("sst" :> <<"ERA-Interim", "HadISST", "Tropflux">>), metric_computation |-> "abs_relative_difference"]
        @@ "EnsoSstLonRmse" :> [variables |-> <<"sst">>, regions |-> ("sst" :> "equatorial_pacific"), obs_name |-> ("sst" :> <<"ERA-Interim", "HadISST", "Tropflux">>), event_definition |-> [region_ev |-> "nino3.4", season_ev |-> "DEC"]]
        @@ "EnsoPrMapDjf" :> [variables |-> <<"sst", "pr">>, regions |-> ("pr" :> "global" @@ "sst" :> "nino3.4"), obs_name |-> ("pr" :> <<"ERA-Interim", "GPCPv2.3">> @@ "sst" :> <<"ERA-Interim", "HadISST", "Tropflux">>), event_definition |-> [region_ev |-> "nino3.4", season_ev |-> "DEC"]]
        @@ "EnsoPrMapJja" :> [variables |-> <<"sst", "pr">>, regions |-> ("pr" :> "global" @@ "sst" :> "nino3.4"), obs_name |-> ("pr" :> <<"ERA-Interim", "GPCPv2.3">> @@ "sst" :> <<"ERA-Interim", "HadISST", "Tropflux">>), event_definition |-> [region_ev |-> "nino3.4", season_ev |-> "DEC"]]
        @@ "EnsoSstMapDjf" :> [variables |-> <<"sst">>, regions |-> ("sst" :> "global"), obs_name |-> ("sst" :> <<"ERA-Interim", "HadISST", "Tropflux">>), event_definition |-> [region_ev |-> "nino3.4", season_ev |-> "DEC"]]
        @@ "EnsoSstMapJja" :> [variables |-> <<"sst">>, regions |-> ("sst" :> "global"), obs_name |-> ("sst" :> <<"ERA-Interim", "HadISST", "Tropflux">>), event_definition |-> [region_ev |-> "nino3.4", season_ev |-> "DEC"]]),
     common_collection_parameters |-> [detrending |-> [method |-> "linear"], frequency |-> "monthly", min_time_steps |-> 12, normalization |-> FALSE, project_interpreter |-> "CMIP"],
     plot_order |-> <<"EnsoSstLonRmse", "EnsoAmpl", "EnsoSeasonality", "EnsoPrMapDjfRmse", "EnsoPrMapJjaRmse", "EnsoSstMapDjfRmse", "EnsoSstMapJjaRmse">>,
     description |-> "Describe which science question this collection is about"]
  @@ "ENSO_proc" :> [long_name |-> "Metrics Collection for ENSO processes",
     metrics_list |->
       ("BiasSstLonRmse" :> [variables |-> <<"sst">>, regions |-> ("sst" :> "equatorial_pacific"), obs_name |-> ("sst" :> <<"ERA-Interim", "HadISST", "Tropflux">>)]
        @@ "BiasTauxLonRmse" :> [variables |-> <<"taux">>, regions |-> ("taux" :> "equatorial_pacific"), obs_name |-> ("taux" :> <<"ERA-Interim", "Tropflux">>)]
        @@ "EnsoAmpl" :> [variables |-> <<"sst">>, regions |-> ("sst" :> "nino3.4"), obs_name |-> ("sst" :> <<"ERA-Interim", "HadISST", "Tropflux">>), metric_computation |-> "abs_relative_difference"]
        @@ "EnsoSstLonRmse" :> [variables |-> <<"sst">>, regions |-> ("sst" :> "equatorial_pacific"), obs_name |-> ("sst" :> <<"ERA-Interim", "HadISST", "Tropflux">>), event_definition |-> [region_ev |-> "nino3.4", season_ev |-> "DEC"]]
        @@ "EnsoSeasonality" :> [variables |-> <<"sst">>, regions |-> ("sst" :> "nino3.4"), obs_name |-> ("sst" :> <<"ERA-Interim", "HadISST", "Tropflux">>), metric_computation |-> "abs_relative_difference"]
        @@ "EnsoSstSkew" :> [variables |-> <<"sst">>, regions |-> ("sst" :> "nino3.4"), obs_name |-> ("sst" :> <<"ERA-Interim", "HadISST", "Tropflux">>), metric_computation |-> "abs_relative_difference"]
        @@ "EnsodSstOce_2" :> [variables |-> <<"sst", "thf">>, regions |-> ("sst" :> "nino3" @@ "thf" :> "nino3"), obs_name |-> ("sst" :> <<"ERA-Interim", "HadISST", "Tropflux">> @@ "thf" :> <<"ERA-Interim", "Tropflux">>), event_definition |-> [region_ev |-> "nino3.4", season_ev |-> "DEC"], metric_computation |-> "abs_relative_difference"]
        @@ "EnsoFbSshSst" :> [variables |-> <<"sst", "ssh">>, regions |-> ("sst" :> "nino3" @@ "ssh" :> "nino3"), obs_name |-> ("sst" :> <<"ERA-Interim", "HadISST", "Tropflux">> @@ "ssh" :> <<"AVISO">>), metric_computation |-> "abs_relative_difference"]
        @@ "EnsoFbSstTaux" :> [variables |-> <<"sst", "taux">>, regions |-> ("sst" :> "nino3" @@ "taux" :> "nino4"), obs_name |-> ("sst" :> <<"ERA-Interim", "HadISST", "Tropflux">> @@ "taux" :> <<"ERA-Interim", "Tropflux">>), metric_computation |-> "abs_relative_difference"]
        @@ "EnsoFbSstThf" :> [variables |-> <<"sst", "thf">>, regions |-> ("sst" :> "nino3" @@ "thf" :> "nino3"), obs_name |-> ("sst" :> <<"ERA-Interim", "HadISST", "Tropflux">> @@ "thf" :> <<"ERA-Interim", "Tropflux">>), metric_computation |-> "abs_relative_difference"]
        @@ "EnsoFbTauxSsh" :> [variables |-> <<"taux", "ssh">>, regions |-> ("ssh" :> "nino3" @@ "taux" :> "nino4"), obs_name |-> ("sst" :> <<"ERA-Interim", "HadISST", "Tropflux">> @@ "ssh" :> <<"AVISO">>), metric_computation |-> "abs_relative_difference"]),
     common_collection_parameters |-> [detrending |-> [method |-> "linear"], frequency |-> "monthly", min_time_steps |-> 12, normalization |-> FALSE, project_interpreter |-> "CMIP"],
     plot_order |-> <<"BiasSstLonRmse", "BiasTauxLonRmse", "EnsoSstLonRmse", "EnsoAmpl", "EnsoSeasonality", "EnsoSstSkew", "EnsodSstOce_2", "EnsoFbSstThf", "EnsoFbSstTaux", "EnsoFbTauxSsh", "EnsoFbSshSst">>,
     description |-> "Describe which science question this collection is about"]
  @@ "all_metrics" :> [long_name |-> "Metrics Collection for ENSO performance",
     metrics_list |->
       ("BiasPrLatRmse" :> [variables |-> <<"pr">>, regions |-> ("pr" :> "nino3_LatExt"), obs_name |-> ("pr" :> <<"ERA-Interim", "GPCPv2.3">>)]
        @@ "BiasPrLonRmse" :> [variables |-> <<"pr">>, regions |-> ("pr" :> "equatorial_pacific"), obs_name |-> ("pr" :> <<"ERA-Interim", "GPCPv2.3">>)]
        @@ "BiasSshLatRmse" :> [variables |-> <<"ssh">>, regions |-> ("ssh" :> "nino3_LatExt"), obs_name |-> ("ssh" :> <<"AVISO">>)]
        @@ "BiasSshLonRmse" :> [variables |-> <<"ssh">>, regions |-> ("ssh" :> "equatorial_pacific"), obs_name |-> ("ssh" :> <<"AVISO">>)]
        @@ "BiasSstLatRmse" :> [variables |-> <<"sst">>, regions |-> ("sst" :> "nino3_LatExt"), obs_name |-> ("sst" :> <<"ERA-Interim", "HadISST", "Tropflux">>)]
        @@ "BiasSstLonRmse" :> [variables |-> <<"sst">>, regions |-> ("sst" :> "equatorial_pacific"), obs_name |-> ("sst" :> <<"ERA-Interim", "HadISST", "Tropflux">>)]
        @@ "BiasTauxLatRmse" :> [variables |-> <<"taux">>, regions |-> ("taux" :> "equatorial_pacific_LatExt"), obs_name |-> ("taux" :> <<"ERA-Interim", "Tropflux">>)]
        @@ "BiasTauxLonRmse" :> [variables |-> <<"taux">>, regions |-> ("taux" :> "equatorial_pacific"), obs_name |-> ("taux" :> <<"ERA-Interim", "Tropflux">>)]
        @@ "EnsoAmpl" :> [variables |-> <<"sst">>, regions |-> ("sst" :> "nino3.4"), obs_name |-> ("sst" :> <<"ERA-Interim", "HadISST", "Tropflux">>), metric_computation |-> "abs_relative_difference"]
        @@ "EnsoDuration" :> [variables |-> <<"sst">>, regions |-> ("sst" :> "nino3.4"), obs_name |-> ("sst" :> <<"ERA-Interim", "HadISST", "Tropflux">>), event_definition |-> [region_ev |-> "nino3.4", season_ev |-> "DEC"], metric_computation |-> "abs_relative_difference"]
        @@ "EnsodSstOce_1" :> [variables |-> <<"sst", "thf">>, regions |-> ("sst" :> "nino3" @@ "thf" :> "nino3"), obs_name |-> ("sst" :> <<"ERA-Interim", "HadISST", "Tropflux">> @@ "thf" :> <<"ERA-Interim", "Tropflux">>), event_definition |-> [region_ev |-> "nino3.4", season_ev |-> "DEC"], metric_computation |-> "abs_relative_difference"]
        @@ "EnsodSstOce_2" :> [variables |-> <<"sst", "thf">>, regions |-> ("sst" :> "nino3" @@ "thf" :> "nino3"), obs_name |-> ("sst" :> <<"ERA-Interim", "HadISST", "Tropflux">> @@ "thf" :> <<"ERA-Interim", "Tropflux">>), event_definition |-> [region_ev |-> "nino3.4", season_ev |-> "DEC"], metric_computation |-> "abs_relative_difference"]
        @@ "EnsoFbSshSst" :> [variables |-> <<"sst", "ssh">>, regions |-> ("sst" :> "nino3" @@ "ssh" :> "nino3"), obs_name |-> ("sst" :> <<"ERA-Interim", "HadISST", "Tropflux">> @@ "ssh" :> <<"AVISO">>), metric_computation |-> "abs_relative_difference"]
        @@ "EnsoFbSstLhf" :> [variables |-> <<"sst", "lhf">>, regions |-> ("sst" :> "nino3" @@ "lhf" :> "nino3"), obs_name |-> ("sst" :> <<"ERA-Interim", "HadISST", "Tropflux">> @@ "lhf" :> <<"ERA-Interim", "Tropflux">>), metric_computation |-> "abs_relative_difference"]
        @@ "EnsoFbSstLwr" :> [variables |-> <<"sst", "lwr">>, regions |-> ("sst" :> "nino3" @@ "lwr" :> "nino3"), obs_name |-> ("sst" :> <<"ERA-Interim", "HadISST", "Tropflux">> @@ "lwr" :> <<"ERA-Interim", "Tropflux">>), metric_computation |-> "abs_relative_difference"]
        @@ "EnsoFbSstShf" :> [variables |-> <<"sst", "shf">>, regions |-> ("sst" :> "nino3" @@ "shf" :> "nino3"), obs_name |-> ("sst" :> <<"ERA-Interim", "HadISST", "Tropflux">> @@ "shf" :> <<"ERA-Interim", "Tropflux">>), metric_computation |-> "abs_relative_difference"]
        @@ "EnsoFbSstSwr" :> [variables |-> <<"sst", "swr">>, regions |-> ("sst" :> "nino3" @@ "swr" :> "nino3"), obs_name |-> ("sst" :> <<"ERA-Interim", "HadISST", "Tropflux">> @@ "swr" :> <<"ERA-Interim", "Tropflux">>), metric_computation |-> "abs_relative_difference"]
        @@ "EnsoFbSstTaux" :> [variables |-> <<"sst", "taux">>, regions |-> ("sst" :> "nino3" @@ "taux" :> "nino4"), obs_name |-> ("sst" :> <<"ERA-Interim", "HadISST", "Tropflux">> @@ "taux" :> <<"ERA-Interim", "Tropflux">>), metric_computation |-> "abs_relative_difference"]
        @@ "EnsoFbSstThf" :> [variables |-> <<"sst", "thf">>, regions |-> ("sst" :> "nino3" @@ "thf" :> "nino3"), obs_name |-> ("sst" :> <<"ERA-Interim", "HadISST", "Tropflux">> @@ "thf" :> <<"ERA-Interim", "Tropflux">>), metric_computation |-> "abs_relative_difference"]
        @@ "EnsoFbTauxSsh" :> [variables |-> <<"taux", "ssh">>, regions |-> ("ssh" :> "nino3" @@ "taux" :> "nino4"), obs_name |-> ("sst" :> <<"ERA-Interim", "HadISST", "Tropflux">> @@ "ssh" :> <<"AVISO">>), metric_computation |-> "abs_relative_difference"]
        @@ "EnsoPrMapDjf" :> [variables |-> <<"sst", "pr">>, regions |-> ("pr" :> "global" @@ "sst" :> "nino3.4"), obs_name |-> ("pr" :> <<"ERA-Interim", "GPCPv2.3">> @@ "sst" :> <<"ERA-Interim", "HadISST", "Tropflux">>), event_definition |-> [region_ev |-> "nino3.4", season_ev |-> "DEC"]]
        @@ "EnsoPrMapJja" :> [variables |-> <<"sst", "pr">>, regions |-> ("pr" :> "global" @@ "sst" :> "nino3.4"), obs_name |-> ("pr" :> <<"ERA-Interim", "GPCPv2.3">> @@ "sst" :> <<"ERA-Interim", "HadISST", "Tropflux">>), event_definition |-> [region_ev |-> "nino3.4", season_ev |-> "DEC"]]
        @@ "EnsoSeasonality" :> [variables |-> <<"sst">>, regions |-> ("sst" :> "nino3.4"), obs_name |-> ("sst" :> <<"ERA-Interim", "HadISST", "Tropflux">>), metric_computation |-> "abs_relative_difference"]
        @@ "EnsoSlpMapDjf" :> [variables |-> <<"sst", "slp">>, regions |-> ("slp" :> "global" @@ "sst" :> "nino3.4"), obs_name |-> ("slp" :> <<"AVISO">> @@ "sst" :> <<"ERA-Interim", "HadISST", "Tropflux">>), event_definition |-> [region_ev |-> "nino3.4", season_ev |-> "DEC"]]
        @@ "EnsoSlpMapJja" :> [variables |-> <<"sst", "slp">>, regions |-> ("slp" :> "global" @@ "sst" :> "nino3.4"), obs_name |-> ("slp" :> <<"AVISO">> @@ "sst" :> <<"ERA-Interim", "HadISST", "Tropflux">>), event_definition |-> [region_ev |-> "nino3.4", season_ev |-> "DEC"]]
        @@ "EnsoSstDiversity_1" :> [variables |-> <<"sst">>, regions |-> ("sst" :> "equatorial_pacific"), obs_name |-> ("sst" :> <<"ERA-Interim", "HadISST", "Tropflux">>), event_definition |-> [region_ev |-> "nino3.4", season_ev |-> "DEC"], metric_computation |-> "abs_relative_difference"]
        @@ "EnsoSstDiversity_2" :> [variables |-> <<"sst">>, regions |-> ("sst" :> "equatorial_pacific"), obs_name |-> ("sst" :> <<"ERA-Interim", "HadISST", "Tropflux">>), event_definition |-> [region_ev |-> "nino3.4", season_ev |-> "DEC"], metric_computation |-> "abs_relative_difference"]
        @@ "EnsoSstLonRmse" :> [variables |-> <<"sst">>, regions |-> ("sst" :> "equatorial_pacific"), obs_name |-> ("sst" :> <<"ERA-Interim", "HadISST", "Tropflux">>), event_definition |-> [region_ev |-> "nino3.4", season_ev |-> "DEC"]]
        @@ "EnsoSstMapDjf" :> [variables |-> <<"sst">>, regions |-> ("sst" :> "global"), obs_name |-> ("sst" :> <<"ERA-Interim", "HadISST", "Tropflux">>), event_definition |-> [region_ev |-> "nino3.4", season_ev |-> "DEC"]]
        @@ "EnsoSstMapJja" :> [variables |-> <<"sst">>, regions |-> ("sst" :> "global"), obs_name |-> ("sst" :> <<"ERA-Interim", "HadISST", "Tropflux">>), event_definition |-> [region_ev |-> "nino3.4", season_ev |-> "DEC"]]
        @@ "EnsoSstSkew" :> [variables |-> <<"sst">>, regions |-> ("sst" :> "nino3.4"), obs_name |-> ("sst" :> <<"ERA-Interim", "HadISST", "Tropflux">>), metric_computation |-> "abs_relative_difference"]
        @@ "EnsoSstTsRmse" :> [variables |-> <<"sst">>, regions |-> ("sst" :> "nino3.4"), obs_name |-> ("sst" :> <<"ERA-Interim", "HadISST", "Tropflux">>), event_definition |-> [region_ev |-> "nino3.4", season_ev |-> "DEC"]]
        @@ "SeasonalPrLatRmse" :> [variables |-> <<"pr">>, regions |-> ("pr" :> "nino3_LatExt"), obs_name |-> ("pr" :> <<"ERA-Interim", "GPCPv2.3">>)]
        @@ "SeasonalPrLonRmse" :> [variables |-> <<"pr">>, regions |-> ("pr" :> "equatorial_pacific"), obs_name |-> ("pr" :> <<"ERA-Interim", "GPCPv2.3">>)]
        @@ "SeasonalSshLatRmse" :> [variables |-> <<"ssh">>, regions |-> ("ssh" :> "nino3_LatExt"), obs_name |-> ("ssh" :> <<"AVISO">>)]
        @@ "SeasonalSshLonRmse" :> [variables |-> <<"ssh">>, regions |-> ("ssh" :> "equatorial_pacific"), obs_name |-> ("ssh" :> <<"AVISO">>)]
        @@ "SeasonalSstLatRmse" :> [variables |-> <<"sst">>, regions |-> ("sst" :> "nino3_LatExt"), obs_name |-> ("sst" :> <<"ERA-Interim", "HadISST", "Tropflux">>)]
        @@ "SeasonalSstLonRmse" :> [variables |-> <<"sst">>, regions |-> ("sst" :> "equatorial_pacific"), obs_name |-> ("sst" :> <<"ERA-Interim", "HadISST", "Tropflux">>)]
        @@ "SeasonalTauxLatRmse" :> [variables |-> <<"taux">>, regions |-> ("taux" :> "equatorial_pacific_LatExt"), obs_name |-> ("taux" :> <<"ERA-Interim", "Tropflux">>)]
        @@ "SeasonalTauxLonRmse" :> [variables |-> <<"taux">>, regions |-> ("taux" :> "equatorial_pacific"), obs_name |-> ("sst" :> <<"ERA-Interim", "Tropflux">>)]),
     common_collection_parameters |-> [detrending |-> [method |-> "linear"], frequency |-> "monthly", min_time_steps |-> 12, normalization |-> FALSE, project_interpreter |-> "CMIP"],
     plot_order |-> <<"BiasPrLatRmse", "BiasPrLonRmse", "BiasSstLonRmse", "BiasTauxLonRmse", "SeasonalPrLatRmse", "SeasonalPrLonRmse", "SeasonalSstLonRmse", "SeasonalTauxLonRmse", "EnsoSstLonRmse", "EnsoSstTsRmse", "EnsoAmpl", "EnsoSeasonality", "EnsoSstSkew", "EnsodDuration", "EnsoSstDiversity_2">>,
     description |-> "Describe which science question this collection is about"]
  @@ "ENSO_THF" :> [long_name |-> "Metrics Collection for ENSO performance",
     metrics_list |->
       ("EnsoFbSstLhf" :> [variables |-> <<"sst", "lhf">>, regions |-> ("sst" :> "nino3" @@ "lhf" :> "nino3"), obs_name |-> ("sst" :> <<"ERA-Interim", "HadISST", "Tropflux">> @@ "lhf" :> <<"ERA-Interim", "Tropflux">>), metric_computation |-> "abs_relative_difference"]
        @@ "EnsoFbSstLwr" :> [variables |-> <<"sst", "lwr">>, regions |-> ("sst" :> "nino3" @@ "lwr" :> "nino3"), obs_name |-> ("sst" :> <<"ERA-Interim", "HadISST", "Tropflux">> @@ "lwr" :> <<"ERA-Interim", "Tropflux">>), metric_computation |-> "abs_relative_difference"]
        @@ "EnsoFbSstShf" :> [variables |-> <<"sst", "shf">>, regions |-> ("sst" :> "nino3" @@ "shf" :> "nino3"), obs_name |-> ("sst" :> <<"ERA-Interim", "HadISST", "Tropflux">> @@ "shf" :> <<"ERA-Interim", "Tropflux">>), metric_computation |-> "abs_relative_difference"]
        @@ "EnsoFbSstSwr" :> [variables |-> <<"sst", "swr">>, regions |-> ("sst" :> "nino3" @@ "swr" :> "nino3"), obs_name |-> ("sst" :> <<"ERA-Interim", "HadISST", "Tropflux">> @@ "swr" :> <<"ERA-Interim", "Tropflux">>), metric_computation |-> "abs_relative_difference"]
        @@ "EnsoFbSstThf" :> [variables |-> <<"sst", "thf">>, regions |-> ("sst" :> "nino3" @@ "thf" :> "nino3"), obs_name |-> ("sst" :> <<"ERA-Interim", "HadISST", "Tropflux">> @@ "thf" :> <<"ERA-Interim", "Tropflux">>), metric_computation |-> "abs_relative_difference"]),
     common_collection_parameters |-> [detrending |-> [method |-> "linear"], frequency |-> "monthly", min_time_steps |-> 12, normalization |-> FALSE, project_interpreter |-> "CMIP"],
     plot_order |-> <<"EnsoFbSstThf">>,
     description |-> "Describe which science question this collection is about"]
  @@ "ENSO_tau" :> [long_name |-> "Metrics Collection for ENSO performance",
     metrics_list |->
       ("BiasMldLonRmse" :> [variables |-> <<"mld">>, regions |-> ("mld" :> "equatorial_pacific"), obs_name |-> ("mld" :> <<"Boyer", "Sallee">>)]
        @@ "BiasTauxLonRmse" :> [variables |-> <<"taux">>, regions |-> ("taux" :> "equatorial_pacific"), obs_name |-> ("taux" :> <<"ERA-Interim", "Tropflux">>)]
        @@ "BiasTauyLonRmse" :> [variables |-> <<"tauy">>, regions |-> ("tauy" :> "equatorial_pacific"), obs_name |-> ("tauy" :> <<"ERA-Interim", "Tropflux">>)]
        @@ "EnsoMldLonRmse" :> [variables |-> <<"sst", "mld">>, regions |-> ("sst" :> "equatorial_pacific" @@ "mld" :> "equatorial_pacific"), obs_name |-> ("sst" :> <<"ERA-Interim", "HadISST", "Tropflux">> @@ "mld" :> <<"Boyer", "Sallee">>), event_definition |-> [region_ev |-> "nino3.4", season_ev |-> "DEC"]]
        @@ "EnsoMldTsRmse" :> [variables |-> <<"sst", "mld">>, regions |-> ("sst" :> "nino3.4" @@ "mld" :> "nino4"), obs_name |-> ("sst" :> <<"ERA-Interim", "HadISST", "Tropflux">> @@ "mld" :> <<"Boyer", "Sallee">>), event_definition |-> [region_ev |-> "nino3.4", season_ev |-> "DEC"]]
        @@ "EnsoTauxLonRmse" :> [variables |-> <<"sst", "taux">>, regions |-> ("sst" :> "equatorial_pacific" @@ "taux" :> "equatorial_pacific"), obs_name |-> ("sst" :> <<"ERA-Interim", "HadISST", "Tropflux">> @@ "taux" :> <<"ERA-Interim", "Tropflux">>), event_definition |-> [region_ev |-> "nino3.4", season_ev |-> "DEC"]]
        @@ "EnsoTauxTsRmse" :> [variables |-> <<"sst", "taux">>, regions |-> ("sst" :> "nino3.4" @@ "taux" :> "nino4"), obs_name |-> ("sst" :> <<"ERA-Interim", "HadISST", "Tropflux">> @@ "taux" :> <<"ERA-Interim", "Tropflux">>), event_definition |-> [region_ev |-> "nino3.4", season_ev |-> "DEC"]]
        @@ "EnsoTauyLonRmse" :> [variables |-> <<"sst", "tauy">>, regions |-> ("sst" :> "equatorial_pacific" @@ "tauy" :> "equatorial_pacific"), obs_name |-> ("sst" :> <<"ERA-Interim", "HadISST", "Tropflux">> @@ "tauy" :> <<"ERA-Interim", "Tropflux">>), event_definition |-> [region_ev |-> "nino3.4", season_ev |-> "DEC"]]
        @@ "EnsoTauyTsRmse" :> [variables |-> <<"sst", "tauy">>, regions |-> ("sst" :> "nino3.4" @@ "tauy" :> "nino4"), obs_name |-> ("sst" :> <<"ERA-Interim", "HadISST", "Tropflux">> @@ "tauy" :> <<"ERA-Interim", "Tropflux">>), event_definition |-> [region_ev |-> "nino3.4", season_ev |-> "DEC"]]),
     common_collection_parameters |-> [detrending |-> [method |-> "linear"], frequency |-> "monthly", min_time_steps |-> 12, normalization |-> FALSE, project_interpreter |-> "CMIP"],
     plot_order |-> <<"BiasMldLonRmse", "BiasTauxLonRmse", "BiasTauyLonRmse", "EnsoMldLonRmse", "EnsoMldTsRmse", "EnsoTauxLonRmse", "EnsoTauxTsRmse", "EnsoTauyLonRmse", "EnsoTauyTsRmse">>,
     description |-> "Describe which science question this collection is about"])

dict_ref_obs ==
  ("20CRv2c" :> [variable_name_in_file |->
       ("lhf" :> [var_name |-> [t |-> "str", s |-> "hfls", l |-> <<>>]]
        @@ "lwr" :> [var_name |-> [t |-> "list", s |-> "", l |-> <<"rlds", "rlus">>], algebric_calculation |-> <<"plus", "minus">>]
        @@ "pr" :> [var_name |-> [t |-> "str", s |-> "pr", l |-> <<>>]]
        @@ "shf" :> [var_name |-> [t |-> "str", s |-> "hfss", l |-> <<>>]]
        @@ "sst" :> [var_name |-> [t |-> "str", s |-> "ts", l |-> <<>>]]
        @@ "swr" :> [var_name |-> [t |-> "list", s |-> "", l |-> <<"rsds", "rsus">>], algebric_calculation |-> <<"plus", "minus">>]
        @@ "taux" :> [var_name |-> [t |-> "str", s |-> "tauu", l |-> <<>>]]
        @@ "tauy" :> [var_name |-> [t |-> "str", s |-> "tauv", l |-> <<>>]]
        @@ "thf" :> [var_name |-> [t |-> "list", s |-> "", l |-> <<"hfls", "hfss", "rlds", "rlus", "rsds", "rsus">>], algebric_calculation |-> <<"plus", "plus", "plus", "minus", "plus", "minus">>]
        @@ "ts" :> [var_name |-> [t |-> "str", s |-> "ts", l |-> <<>>]])]
  @@ "20CRv3" :> [variable_name_in_file |->
       ("landmask" :> [var_name |-> [t |-> "str", s |-> "land", l |-> <<>>]]
        @@ "lhf" :> [var_name |-> [t |-> "str", s |-> "lhtfl", l |-> <<>>]]
        @@ "lwr" :> [var_name |-> [t |-> "list", s |-> "", l |-> <<"dlwrf", "ulwrf">>], algebric_calculation |-> <<"plus", "minus">>]
        @@ "pr" :> [var_name |-> [t |-> "str", s |-> "prate", l |-> <<>>]]
        @@ "slp" :> [var_name |-> [t |-> "str", s |-> "prmsl", l |-> <<>>]]
        @@ "shf" :> [var_name |-> [t |-> "str", s |-> "shtfl", l |-> <<>>]]
        @@ "sst" :> [var_name |-> [t |-> "str", s |-> "skt", l |-> <<>>]]
        @@ "swr" :> [var_name |-> [t |-> "list", s |-> "", l |-> <<"dswrf", "uswrf">>], algebric_calculation |-> <<"plus", "minus">>]
        @@ "thf" :> [var_name |-> [t |-> "list", s |-> "", l |-> <<"lhtfl", "shtfl", "dlwrf", "ulwrf", "dswrf", "uswrf">>], algebric_calculation |-> <<"plus", "plus", "plus", "minus", "plus", "minus">>])]
  @@ "AVISO" :> [variable_name_in_file |->
       ("ssh" :> [var_name |-> [t |-> "str", s |-> "sla", l |-> <<>>]])]
  @@ "CERA-20C" :> [variable_name_in_file |->
       ("lhf" :> [var_name |-> [t |-> "str", s |-> "hfls", l |-> <<>>]]
        @@ "lwr" :> [var_name |-> [t |-> "list", s |-> "", l |-> <<"rlds", "rlus">>], algebric_calculation |-> <<"plus", "minus">>]
        @@ "pr" :> [var_name |-> [t |-> "str", s |-> "pr", l |-> <<>>]]
        @@ "shf" :> [var_name |-> [t |-> "str", s |-> "hfss", l |-> <<>>]]
        @@ "sst" :> [var_name |-> [t |-> "str", s |-> "ts", l |-> <<>>]]
        @@ "swr" :> [var_name |-> [t |-> "list", s |-> "", l |-> <<"rsds", "rsus">>], algebric_calculation |-> <<"plus", "minus">>]
        @@ "taux" :> [var_name |-> [t |-> "str", s |-> "tauu", l |-> <<>>]]
        @@ "tauy" :> [var_name |-> [t |-> "str", s |-> "tauv", l |-> <<>>]]
        @@ "thf" :> [var_name |-> [t |-> "list", s |-> "", l |-> <<"hfls", "hfss", "rlds", "rlus", "rsds", "rsus">>], algebric_calculation |-> <<"plus", "plus", "plus", "minus", "plus", "minus">>]
        @@ "ts" :> [var_name |-> [t |-> "str", s |-> "ts", l |-> <<>>]])]
  @@ "CFSR" :> [variable_name_in_file |->
       ("lhf" :> [var_name |-> [t |-> "str", s |-> "hfls", l |-> <<>>]]
        @@ "lwr" :> [var_name |-> [t |-> "list", s |-> "", l |-> <<"rlds", "rlus">>], algebric_calculation |-> <<"plus", "minus">>]
        @@ "pr" :> [var_name |-> [t |-> "str", s |-> "pr", l |-> <<>>]]
        @@ "shf" :> [var_name |-> [t |-> "str", s |-> "hfss", l |-> <<>>]]
        @@ "slp" :> [var_name |-> [t |-> "str", s |-> "psl", l |-> <<>>]]
        @@ "ssh" :> [var_name |-> [t |-> "str", s |-> "zos", l |-> <<>>]]
        @@ "sst" :> [var_name |-> [t |-> "str", s |-> "ts", l |-> <<>>]]
        @@ "swr" :> [var_name |-> [t |-> "list", s |-> "", l |-> <<"rsds", "rsus">>], algebric_calculation |-> <<"plus", "minus">>]
        @@ "taux" :> [var_name |-> [t |-> "str", s |-> "tauu", l |-> <<>>]]
        @@ "tauy" :> [var_name |-> [t |-> "str", s |-> "tauv", l |-> <<>>]]
        @@ "thf" :> [var_name |-> [t |-> "list", s |-> "", l |-> <<"hfls", "hfss", "rlds", "rlus", "rsds", "rsus">>], algebric_calculation |-> <<"plus", "plus", "plus", "minus", "plus", "minus">>]
        @@ "ts" :> [var_name |-> [t |-> "str", s |-> "ts", l |-> <<>>]])]
  @@ "CMAP" :> [variable_name_in_file |->
       ("pr" :> [var_name |-> [t |-> "str", s |-> "precip", l |-> <<>>]])]
  @@ "ERA-Interim" :> [variable_name_in_file |->
       ("lhf" :> [var_name |-> [t |-> "str", s |-> "hfls", l |-> <<>>]]
        @@ "lwr" :> [var_name |-> [t |-> "list", s |-> "", l |-> <<"rlds", "rlus">>], algebric_calculation |-> <<"plus", "minus">>]
        @@ "pr" :> [var_name |-> [t |-> "str", s |-> "pr", l |-> <<>>]]
        @@ "shf" :> [var_name |-> [t |-> "str", s |-> "hfss", l |-> <<>>]]
        @@ "sst" :> [var_name |-> [t |-> "str", s |-> "ts", l |-> <<>>]]
        @@ "swr" :> [var_name |-> [t |-> "list", s |-> "", l |-> <<"rsds", "rsus">>], algebric_calculation |-> <<"plus", "minus">>]
        @@ "taux" :> [var_name |-> [t |-> "str", s |-> "tauu", l |-> <<>>]]
        @@ "tauy" :> [var_name |-> [t |-> "str", s |-> "tauv", l |-> <<>>]]
        @@ "thf" :> [var_name |-> [t |-> "list", s |-> "", l |-> <<"hfls", "hfss", "rlds", "rlus", "rsds", "rsus">>], algebric_calculation |-> <<"plus", "plus", "plus", "minus", "plus", "minus">>]
        @@ "ts" :> [var_name |-> [t |-> "str", s |-> "ts", l |-> <<>>]])]
  @@ "ERA5" :> [variable_name_in_file |->
       ("lhf" :> [var_name |-> [t |-> "str", s |-> "hfls", l |-> <<>>]]
        @@ "lwr" :> [var_name |-> [t |-> "list", s |-> "", l |-> <<"rlds", "rlus">>], algebric_calculation |-> <<"plus", "minus">>]
        @@ "pr" :> [var_name |-> [t |-> "str", s |-> "pr", l |-> <<>>]]
        @@ "shf" :> [var_name |-> [t |-> "str", s |-> "hfss", l |-> <<>>]]
        @@ "sst" :> [var_name |-> [t |-> "str", s |-> "ts", l |-> <<>>]]
        @@ "swr" :> [var_name |-> [t |-> "list", s |-> "", l |-> <<"rsds", "rsus">>], algebric_calculation |-> <<"plus", "minus">>]
        @@ "taux" :> [var_name |-> [t |-> "str", s |-> "tauu", l |-> <<>>]]
        @@ "tauy" :> [var_name |-> [t |-> "str", s |-> "tauv", l |-> <<>>]]
        @@ "thf" :> [var_name |-> [t |-> "list", s |-> "", l |-> <<"hfls", "hfss", "rlds", "rlus", "rsds", "rsus">>], algebric_calculation |-> <<"plus", "plus", "plus", "minus", "plus", "minus">>]
        @@ "ts" :> [var_name |-> [t |-> "str", s |-> "ts", l |-> <<>>]])]
  @@ "ERSSTv5" :> [variable_name_in_file |->
       ("sst" :> [var_name |-> [t |-> "str", s |-> "sst", l |-> <<>>]])]
  @@ "ESA-CCI-SST-v2-1" :> [variable_name_in_file |->
       ("sst" :> [var_name |-> [t |-> "str", s |-> "tos", l |-> <<>>]])]
  @@ "GPCP-Monthly-3-2" :> [variable_name_in_file |->
       ("pr" :> [var_name |-> [t |-> "str", s |-> "pr", l |-> <<>>]])]
  @@ "HadISST" :> [variable_name_in_file |->
       ("sst" :> [var_name |-> [t |-> "str", s |-> "sst", l |-> <<>>]])]
  @@ "JRA-55-mdl-iso" :> [variable_name_in_file |->
       ("lhf" :> [var_name |-> [t |-> "str", s |-> "hfls", l |-> <<>>]]
        @@ "lwr" :> [var_name |-> [t |-> "list", s |-> "", l |-> <<"rlds", "rlus">>], algebric_calculation |-> <<"plus", "minus">>]
        @@ "pr" :> [var_name |-> [t |-> "str", s |-> "pr", l |-> <<>>]]
        @@ "shf" :> [var_name |-> [t |-> "str", s |-> "hfss", l |-> <<>>]]
        @@ "sst" :> [var_name |-> [t |-> "str", s |-> "ts", l |-> <<>>]]
        @@ "swr" :> [var_name |-> [t |-> "list", s |-> "", l |-> <<"rsds", "rsus">>], algebric_calculation |-> <<"plus", "minus">>]
        @@ "thf" :> [var_name |-> [t |-> "list", s |-> "", l |-> <<"hfls", "hfss", "rlds", "rlus", "rsds", "rsus">>], algebric_calculation |-> <<"plus", "plus", "plus", "minus", "plus", "minus">>]
        @@ "ts" :> [var_name |-> [t |-> "str", s |-> "ts", l |-> <<>>]])]
  @@ "MERRA" :> [variable_name_in_file |->
       ("lhf" :> [var_name |-> [t |-> "str", s |-> "hfls", l |-> <<>>]]
        @@ "lwr" :> [var_name |-> [t |-> "list", s |-> "", l |-> <<"rlds", "rlus">>], algebric_calculation |-> <<"plus", "minus">>]
        @@ "pr" :> [var_name |-> [t |-> "str", s |-> "pr", l |-> <<>>]]
        @@ "shf" :> [var_name |-> [t |-> "str", s |-> "hfss", l |-> <<>>]]
        @@ "sst" :> [var_name |-> [t |-> "str", s |-> "ts", l |-> <<>>]]
        @@ "swr" :> [var_name |-> [t |-> "list", s |-> "", l |-> <<"rsds", "rsus">>], algebric_calculation |-> <<"plus", "minus">>]
        @@ "taux" :> [var_name |-> [t |-> "str", s |-> "tauu", l |-> <<>>]]
        @@ "tauy" :> [var_name |-> [t |-> "str", s |-> "tauv", l |-> <<>>]]
        @@ "thf" :> [var_name |-> [t |-> "list", s |-> "", l |-> <<"hfls", "hfss", "rlds", "rlus", "rsds", "rsus">>], algebric_calculation |-> <<"plus", "plus", "plus", "minus", "plus", "minus">>]
        @@ "ts" :> [var_name |-> [t |-> "str", s |-> "ts", l |-> <<>>]])]
  @@ "MERRA2" :> [variable_name_in_file |->
       ("lhf" :> [var_name |-> [t |-> "str", s |-> "hfls", l |-> <<>>]]
        @@ "lwr" :> [var_name |-> [t |-> "list", s |-> "", l |-> <<"rlds", "rlus">>], algebric_calculation |-> <<"plus", "minus">>]
        @@ "pr" :> [var_name |-> [t |-> "str", s |-> "pr", l |-> <<>>]]
        @@ "shf" :> [var_name |-> [t |-> "str", s |-> "hfss", l |-> <<>>]]
        @@ "sst" :> [var_name |-> [t |-> "str", s |-> "ts", l |-> <<>>]]
        @@ "swr" :> [var_name |-> [t |-> "list", s |-> "", l |-> <<"rsds", "rsus">>], algebric_calculation |-> <<"plus", "minus">>]
        @@ "taux" :> [var_name |-> [t |-> "str", s |-> "tauu", l |-> <<>>]]
        @@ "tauy" :> [var_name |-> [t |-> "str", s |-> "tauv", l |-> <<>>]]
        @@ "thf" :> [var_name |-> [t |-> "list", s |-> "", l |-> <<"hfls", "hfss", "rlds", "rlus", "rsds", "rsus">>], algebric_calculation |-> <<"plus", "plus", "plus", "minus", "plus", "minus">>]
        @@ "ts" :> [var_name |-> [t |-> "str", s |-> "ts", l |-> <<>>]])]
  @@ "NCEP2" :> [variable_name_in_file |->
       ("landmask" :> [var_name |-> [t |-> "str", s |-> "land", l |-> <<>>]]
        @@ "lhf" :> [var_name |-> [t |-> "str", s |-> "lhtfl", l |-> <<>>]]
        @@ "lwr" :> [var_name |-> [t |-> "list", s |-> "", l |-> <<"dlwrf", "ulwrf">>], algebric_calculation |-> <<"plus", "minus">>]
        @@ "pr" :> [var_name |-> [t |-> "str", s |-> "prate", l |-> <<>>]]
        @@ "shf" :> [var_name |-> [t |-> "str", s |-> "shtfl", l |-> <<>>]]
        @@ "slp" :> [var_name |-> [t |-> "str", s |-> "pres", l |-> <<>>]]
        @@ "sst" :> [var_name |-> [t |-> "str", s |-> "skt", l |-> <<>>]]
        @@ "swr" :> [var_name |-> [t |-> "list", s |-> "", l |-> <<"dswrf", "uswrf">>], algebric_calculation |-> <<"plus", "minus">>]
        @@ "taux" :> [var_name |-> [t |-> "str", s |-> "uflx", l |-> <<>>]]
        @@ "tauy" :> [var_name |-> [t |-> "str", s |-> "vflx", l |-> <<>>]]
        @@ "thf" :> [var_name |-> [t |-> "list", s |-> "", l |-> <<"lhtfl", "shtfl", "dlwrf", "ulwrf", "dswrf", "uswrf">>], algebric_calculation |-> <<"plus", "plus", "plus", "minus", "plus", "minus">>])]
  @@ "Tropflux" :> [variable_name_in_file |->
       ("lhf" :> [var_name |-> [t |-> "str", s |-> "lhf", l |-> <<>>]]
        @@ "lwr" :> [var_name |-> [t |-> "str", s |-> "lwr", l |-> <<>>]]
        @@ "shf" :> [var_name |-> [t |-> "str", s |-> "shf", l |-> <<>>]]
        @@ "sst" :> [var_name |-> [t |-> "str", s |-> "sst", l |-> <<>>]]
        @@ "swr" :> [var_name |-> [t |-> "str", s |-> "swr", l |-> <<>>]]
        @@ "taux" :> [var_name |-> [t |-> "str", s |-> "taux", l |-> <<>>]]
        @@ "tauy" :> [var_name |-> [t |-> "str", s |-> "tauy", l |-> <<>>]]
        @@ "thf" :> [var_name |-> [t |-> "str", s |-> "netflux", l |-> <<>>]])])

dict_reference_regions ==
  ("global" :> [latitude |-> <<-600, 600>>, longitude |-> <<0, 3600>>]
  @@ "global2" :> [latitude |-> <<-900, 900>>, longitude |-> <<0, 3600>>]
  @@ "tropical_pacific" :> [latitude |-> <<-300, 300>>, longitude |-> <<1200, 2800>>]
  @@ "equatorial_pacific" :> [latitude |-> <<-50, 50>>, longitude |-> <<1500, 2700>>]
  @@ "equatorial_pacific_LatExt" :> [latitude |-> <<-150, 150>>, longitude |-> <<1500, 2700>>]
  @@ "equatorial_pacific_LatExt2" :> [latitude |-> <<-150, 150>>, longitude |-> <<1200, 2850>>]
  @@ "eastern_equatorial_pacific" :> [latitude |-> <<-50, 50>>, longitude |-> <<2050, 2800>>]
  @@ "western_equatorial_pacific" :> [latitude |-> <<-50, 50>>, longitude |-> <<1200, 2050>>]
  @@ "nino1+2" :> [latitude |-> <<-100, 0>>, longitude |-> <<2700, 2800>>]
  @@ "nino3" :> [latitude |-> <<-50, 50>>, longitude |-> <<2100, 2700>>]
  @@ "nino3_LatExt" :> [latitude |-> <<-150, 150>>, longitude |-> <<2100, 2700>>]
  @@ "nino3.4" :> [latitude |-> <<-50, 50>>, longitude |-> <<1900, 2400>>]
  @@ "nino4" :> [latitude |-> <<-50, 50>>, longitude |-> <<1600, 2100>>]
  @@ "ALA" :> [latitude |-> <<600, 726>>, longitude |-> <<1920, 2550>>, maskland |-> FALSE, maskocean |-> TRUE]
  @@ "CAS" :> [latitude |-> <<300, 500>>, longitude |-> <<600, 750>>, maskland |-> FALSE, maskocean |-> TRUE]
  @@ "CGI" :> [latitude |-> <<500, 850>>, longitude |-> <<2550, 3500>>, maskland |-> FALSE, maskocean |-> TRUE]
  @@ "CNA" :> [latitude |-> <<286, 500>>, longitude |-> <<2550, 2750>>, maskland |-> FALSE, maskocean |-> TRUE]
  @@ "EAF" :> [latitude |-> <<-114, 150>>, longitude |-> <<250, 520>>, maskland |-> FALSE, maskocean |-> TRUE]
  @@ "EAS" :> [latitude |-> <<200, 500>>, longitude |-> <<1000, 1450>>, maskland |-> FALSE, maskocean |-> TRUE]
  @@ "ENA" :> [latitude |-> <<250, 500>>, longitude |-> <<2750, 3000>>, maskland |-> FALSE, maskocean |-> TRUE]
  @@ "MED" :> [latitude |-> <<300, 450>>, longitude |-> <<3500, 4000>>, maskland |-> FALSE, maskocean |-> TRUE]
  @@ "NAS" :> [latitude |-> <<500, 700>>, longitude |-> <<400, 1800>>, maskland |-> FALSE, maskocean |-> TRUE]
  @@ "NAU" :> [latitude |-> <<-300, -100>>, longitude |-> <<1100, 1550>>, maskland |-> FALSE, maskocean |-> TRUE]
  @@ "NEB" :> [latitude |-> <<-200, 0>>, longitude |-> <<3100, 3260>>, maskland |-> FALSE, maskocean |-> TRUE]
  @@ "SAF" :> [latitude |-> <<-350, -114>>, longitude |-> <<3500, 4120>>, maskland |-> FALSE, maskocean |-> TRUE]
  @@ "SAH" :> [latitude |-> <<150, 300>>, longitude |-> <<3400, 4000>>, maskland |-> FALSE, maskocean |-> TRUE]
  @@ "SAU" :> [latitude |-> <<-500, -300>>, longitude |-> <<1100, 1800>>, maskland |-> FALSE, maskocean |-> TRUE]
  @@ "SEA" :> [latitude |-> <<-100, 200>>, longitude |-> <<950, 1550>>, maskland |-> FALSE, maskocean |-> FALSE]
  @@ "TIB" :> [latitude |-> <<300, 500>>, longitude |-> <<750, 1000>>, maskland |-> FALSE, maskocean |-> TRUE]
  @@ "WAF" :> [latitude |-> <<-114, 150>>, longitude |-> <<3400, 3850>>, maskland |-> FALSE, maskocean |-> TRUE]
  @@ "WAS" :> [latitude |-> <<150, 500>>, longitude |-> <<400, 600>>, maskland |-> FALSE, maskocean |-> TRUE]
  @@ "WNA" :> [latitude |-> <<286, 600>>, longitude |-> <<2300, 2550>>, maskland |-> FALSE, maskocean |-> TRUE]
  @@ "ANT" :> [latitude |-> <<-900, -500>>, longitude |-> <<0, 3600>>, maskland |-> FALSE, maskocean |-> FALSE]
  @@ "ARC" :> [latitude |-> <<675, 900>>, longitude |-> <<0, 3600>>, maskland |-> FALSE, maskocean |-> FALSE]
  @@ "NTP" :> [latitude |-> <<50, 250>>, longitude |-> <<1550, 2100>>]
  @@ "STP" :> [latitude |-> <<-250, -50>>, longitude |-> <<1550, 2300>>]
  @@ "ETP" :> [latitude |-> <<-50, 50>>, longitude |-> <<1550, 2100>>]
  @@ "WIO" :> [latitude |-> <<-250, 50>>, longitude |-> <<520, 750>>, maskland |-> FALSE, maskocean |-> FALSE]
  @@ "CEP" :> [latitude |-> <<-50, 50>>, longitude |-> <<1800, 2200>>, maskland |-> TRUE, maskocean |-> FALSE]
  @@ "CNP" :> [latitude |-> <<50, 150>>, longitude |-> <<1800, 2200>>, maskland |-> TRUE, maskocean |-> FALSE]
  @@ "CSP" :> [latitude |-> <<-150, -50>>, longitude |-> <<1800, 2200>>, maskland |-> TRUE, maskocean |-> FALSE]
  @@ "INO" :> [latitude |-> <<-250, 0>>, longitude |-> <<550, 950>>, maskland |-> TRUE, maskocean |-> FALSE]
  @@ "africaSE" :> [latitude |-> <<-400, 150>>, longitude |-> <<0, 550>>, maskland |-> FALSE, maskocean |-> TRUE]
  @@ "americaN" :> [latitude |-> <<100, 600>>, longitude |-> <<2350, 3000>>, maskland |-> FALSE, maskocean |-> TRUE]
  @@ "americaS" :> [latitude |-> <<-600, 150>>, longitude |-> <<2750, 3300>>, maskland |-> FALSE, maskocean |-> TRUE]
  @@ "asiaS" :> [latitude |-> <<-100, 300>>, longitude |-> <<650, 1300>>, maskland |-> FALSE, maskocean |-> TRUE]
  @@ "oceania" :> [latitude |-> <<-500, 0>>, longitude |-> <<1100, 1800>>, maskland |-> FALSE, maskocean |-> TRUE])

dict_cmip_variables ==
  [reference |-> "http://cfconventions.org/Data/cf-standard-names/46/build/cf-standard-name-table.html",
   variable_name_in_file |->
       ("areacell" :> [var_name |-> [t |-> "str", s |-> "areacella", l |-> <<>>]]
        @@ "landmask" :> [var_name |-> [t |-> "str", s |-> "sftlf", l |-> <<>>]]
        @@ "lhf" :> [var_name |-> [t |-> "str", s |-> "hfls", l |-> <<>>]]
        @@ "lwr" :> [var_name |-> [t |-> "list", s |-> "", l |-> <<"rlds", "rlus">>], algebric_calculation |-> <<"plus", "minus">>]
        @@ "pr" :> [var_name |-> [t |-> "str", s |-> "pr", l |-> <<>>]]
        @@ "slp" :> [var_name |-> [t |-> "str", s |-> "psl", l |-> <<>>]]
        @@ "shf" :> [var_name |-> [t |-> "str", s |-> "hfss", l |-> <<>>]]
        @@ "ssh" :> [var_name |-> [t |-> "str", s |-> "zos", l |-> <<>>]]
        @@ "sst" :> [var_name |-> [t |-> "str", s |-> "ts", l |-> <<>>]]
        @@ "swr" :> [var_name |-> [t |-> "list", s |-> "", l |-> <<"rsds", "rsus">>], algebric_calculation |-> <<"plus", "minus">>]
        @@ "taux" :> [var_name |-> [t |-> "str", s |-> "tauu", l |-> <<>>]]
        @@ "tauy" :> [var_name |-> [t |-> "str", s |-> "tauv", l |-> <<>>]]
        @@ "thf" :> [var_name |-> [t |-> "list", s |-> "", l |-> <<"hfls", "hfss", "rlds", "rlus", "rsds", "rsus">>], algebric_calculation |-> <<"plus", "plus", "plus", "minus", "plus", "minus">>])]

\* ------------------------------------------------------------------------
\* Catalog accessors
\* ------------------------------------------------------------------------

\* defCollection with a lookup that falls back to the whole table when the
\* id is absent (metrics_collection.get(mc, metrics_collection)).
defCollection_DefaultForAbsentId(mc) ==
  IF mc.kind = "str" /\ mc.id \in DOMAIN metrics_collection
    THEN Return(metrics_collection[mc.id])
    ELSE Return(metrics_collection)

\* if mc is True: return metrics_collection / else: return metrics_collection[mc]
defCollection(mc) ==
  IF mc.kind = "bool"
    THEN Return(metrics_collection)
    ELSE IF mc.id \in DOMAIN metrics_collection
           THEN Return(metrics_collection[mc.id])
           ELSE Raise("KeyError", mc.id)

\* ReferenceObservations with the signs of the composite entries left out.
ReferenceObservations_WithoutSigns(dataset) ==
  LET bare == [d \in DOMAIN dict_ref_obs |->
                 [variable_name_in_file |->
                    [v \in DOMAIN dict_ref_obs[d].variable_name_in_file |->
                       [var_name |-> dict_ref_obs[d].variable_name_in_file[v].var_name]]]]
  IN  IF dataset.kind = "bool"
        THEN Return(bare)
        ELSE IF dataset.id \in DOMAIN bare
               THEN Return(bare[dataset.id])
               ELSE Raise("KeyError", dataset.id)

ReferenceObservations(dataset) ==
  IF dataset.kind = "bool"
    THEN Return(dict_ref_obs)
    ELSE IF dataset.id \in DOMAIN dict_ref_obs
           THEN Return(dict_ref_obs[dataset.id])
           ELSE Raise("KeyError", dataset.id)

\* ReferenceRegions with the region 'nino3.4' entered as 'nino34'.
ReferenceRegions_Nino34Renamed(region) ==
  LET renamed == [r \in (DOMAIN dict_reference_regions \ {"nino3.4"}) \cup {"nino34"} |->
                    dict_reference_regions[IF r = "nino34" THEN "nino3.4" ELSE r]]
  IN  IF region.kind = "bool"
        THEN Return(renamed)
        ELSE IF region.id \in DOMAIN renamed
               THEN Return(renamed[region.id])
               ELSE Raise("KeyError", region.id)

\* ReferenceRegions with each latitude pair written north bound first.
ReferenceRegions_NorthBoundFirst(region) ==
  LET swapped == [r \in DOMAIN dict_reference_regions |->
                    [dict_reference_regions[r] EXCEPT !.latitude = <<@[2], @[1]>>]]
  IN  IF region.kind = "bool"
        THEN Return(swapped)
        ELSE IF region.id \in DOMAIN swapped
               THEN Return(swapped[region.id])
               ELSE Raise("KeyError", region.id)

ReferenceRegions(region) ==
  IF region.kind = "bool"
    THEN Return(dict_reference_regions)
    ELSE IF region.id \in DOMAIN dict_reference_regions
           THEN Return(dict_reference_regions[region.id])
           ELSE Raise("KeyError", region.id)

\* CmipVariables with lwr and swr each given as a term of the other.
CmipVariables_LwrAndSwrThroughEachOther ==
  Return([dict_cmip_variables EXCEPT
            !.variable_name_in_file["lwr"].var_name = [t |-> "list", s |-> "", l |-> <<"rlds", "swr">>],
            !.variable_name_in_file["swr"].var_name = [t |-> "list", s |-> "", l |-> <<"rsds", "lwr">>]])

CmipVariables == Return(dict_cmip_variables)


\* ------------------------------------------------------------------------
\* Numbers.  A float is the exact rational <<n, d>> in lowest terms with
\* d > 0; d = 0 stands for numpy's non-finite results: <<1, 0>> is inf,
\* <<-1, 0>> is -inf and <<0, 0>> is nan.  None is the empty tuple.
\* ------------------------------------------------------------------------

PyNone == <<>>

Abs(x) == IF x < 0 THEN -x ELSE x

Sign(x) == IF x < 0 THEN -1 ELSE IF x > 0 THEN 1 ELSE 0

RECURSIVE Gcd(_, _)
Gcd(a, b) == IF b = 0 THEN a ELSE Gcd(b, a % b)

Rat(n, d) ==
  IF d = 0 THEN <<Sign(n), 0>>
  ELSE LET g == Gcd(Abs(n), Abs(d))
       IN  <<(Sign(d) * n) \div g, Abs(d) \div g>>

Int2Rat(n) == <<n, 1>>

IsFinite(x) == x[2] # 0

IsZero(x) == x[2] # 0 /\ x[1] = 0

RatAdd(x, y) ==
  IF IsFinite(x) /\ IsFinite(y) THEN Rat(x[1] * y[2] + y[1] * x[2], x[2] * y[2])
  ELSE IF IsFinite(y) THEN x
  ELSE IF IsFinite(x) \/ x = y THEN y
  ELSE <<0, 0>>

RatNeg(x) == <<-x[1], x[2]>>

RatSub(x, y) == RatAdd(x, RatNeg(y))

RatMul(x, y) ==
  IF IsFinite(x) /\ IsFinite(y) THEN Rat(x[1] * y[1], x[2] * y[2])
  ELSE <<Sign(x[1]) * Sign(y[1]), 0>>

\* numpy division: a zero divisor gives inf, -inf or nan and no exception.
NumpyDiv(x, y) ==
  IF IsFinite(x) /\ IsFinite(y) THEN Rat(x[1] * y[2], x[2] * y[1])
  ELSE IF IsFinite(y) THEN <<x[1] * Sign(y[1] + y[1] + 1), 0>>
  ELSE IF IsFinite(x) /\ y[1] # 0 THEN <<0, 1>>
  ELSE <<0, 0>>

\* x / y of two results of the collaborators: with numpy scalars a zero
\* divisor gives a non-finite value, with Python floats ZeroDivisionError.
PyDiv(x, y, numpy) ==
  IF IsZero(y) /\ ~numpy
    THEN Raise("ZeroDivisionError", "float division by zero")
    ELSE Return(NumpyDiv(x, y))

\* numpy.square(x)
NUMPYsquare(x) == RatMul(x, x)

\* Largest r with r * r <= n, for n >= 0.
ISqrt(n) == CHOOSE r \in 0..n : r * r <= n /\ (r + 1) * (r + 1) > n

\* numpy.sqrt of an integer, to two decimals; nan below zero.
NUMPYsqrt(n) == IF n < 0 THEN <<0, 0>> ELSE Rat(ISqrt(n * 10000), 100)

\* ------------------------------------------------------------------------
\* Outcome of a metric function or of ComputeMetric: as Return / Raise, with
\* the sequence of collaborator calls made up to the return or the raise.
\* ------------------------------------------------------------------------

Ok(v, tr) == [outcome |-> "returned", exc |-> NoExc, value |-> v, trace |-> tr]

Err(kind, arg, tr) ==
  [outcome |-> "raised", exc |-> [kind |-> kind, arg |-> arg], value |-> <<>>, trace |-> tr]

\* A file or variable-name argument: one string, or a list of strings.
FStr(s) == [t |-> "str", s |-> s, l |-> <<>>]

FList(l) == [t |-> "list", s |-> "", l |-> l]

\* ------------------------------------------------------------------------
\* Collaborators imported from EnsoToolsLib (lines 5-6).  A field is known
\* by the signed terms it was built from, the length of its time axis and
\* the kind of unit CheckUnits last normalised it to ("" when unchecked).
\* What the reader and the statistics kernels return is an input of the
\* call: the record o gives the time-axis lengths of the first and second
\* field (len1, len2), the regression results reg[sign] = <<slope, stderr>>,
\* the standard deviations std, stdNDJ, stdMAM, the spatial rms, and whether
\* the kernels hand back numpy scalars (numpy) or Python floats.
\* ------------------------------------------------------------------------

Term(sign, file, name, box) == [sign |-> sign, file |-> file, name |-> name, box |-> box]

ReadAndSelectRegion(file, name, box, len) ==
  [terms |-> <<Term(1, file, name, box)>>, len |-> len, units |-> ""]

CheckUnits(field, kind) == [field EXCEPT !.units = kind]

NegTerms(ts) == [i \in 1..Len(ts) |-> [ts[i] EXCEPT !.sign = -ts[i].sign]]

\* x + y and x - y of two fields
FieldAdd(x, y) == [x EXCEPT !.terms = x.terms \o y.terms]

FieldSub(x, y) == [x EXCEPT !.terms = x.terms \o NegTerms(y.terms)]

ReadCall(file, name, box) ==
  [fn |-> "ReadAndSelectRegion", file |-> file, name |-> name, box |-> box]

CheckCall(field, kind) == [fn |-> "CheckUnits", field |-> field, kind |-> kind]

RegressionCall(y, x, sign) ==
  [fn |-> "get_slope_linear_regression_from_anomaly", y |-> y, x |-> x, sign |-> sign]

KernelCall(fn, field) == [fn |-> fn, field |-> field]

\* ComputeMultiply(pair, 1000.)
ComputeMultiply(pair, k) == <<RatMul(pair[1], Int2Rat(k)), RatMul(pair[2], Int2Rat(k))>>

\* The three regressions of y onto x, all points, positive and negative x
\* anomalies, and the output dict every regression metric builds from them.
RegressionTrace(y, x) ==
  <<RegressionCall(y, x, 0), RegressionCall(y, x, 1), RegressionCall(y, x, -1)>>

\* The output dict with the nonlinearity taken as positive minus negative.
RegressionMetric_PositiveMinusNegative(Name, Units, Method, yearN, Slope, SlopePos, SlopeNeg) ==
  [name |-> Name, value |-> Slope[1], value_error |-> Slope[2],
   units |-> Units, method |-> Method, nyears |-> yearN, ref |-> "Using CDAT regression calculation",
   nonlinearity |-> RatSub(SlopePos[1], SlopeNeg[1]),
   nonlinearity_error |-> RatAdd(SlopeNeg[2], SlopePos[2])]

RegressionMetric(Name, Units, Method, yearN, Slope, SlopePos, SlopeNeg) ==
  [name |-> Name, value |-> Slope[1], value_error |-> Slope[2],
   units |-> Units, method |-> Method, nyears |-> yearN, ref |-> "Using CDAT regression calculation",
   nonlinearity |-> RatSub(SlopeNeg[1], SlopePos[1]),
   nonlinearity_error |-> RatAdd(SlopeNeg[2], SlopePos[2])]

\* ------------------------------------------------------------------------
\* Names bound at module level in EnsoMetricsLib.py: the imports of lines
\* 1-6, the functions and the three registries.  A name used in a function
\* body that is neither one of these nor a local of the function raises
\* NameError when the statement is reached.
\* ------------------------------------------------------------------------

ModuleGlobals ==
  {"NUMPYsqrt", "NUMPYsquare",
   "CheckUnits", "ComputeMultiply", "ComputeRms", "ComputeStd", "SpatialAverage",
   "TimeAverage", "ReadAndSelectRegion", "SeasonalMean",
   "interannual_variabilty_std_annual_cycle_removed",
   "get_slope_linear_regression_from_anomaly",
   "EnsoAlphaLhf", "EnsoAlphaLwr", "EnsoAlphaSwr", "EnsoAlphaThf", "EnsoAmpl",
   "EnsoMu", "EnsoRMSE", "EnsoSeasonality",
   "dict_oneVar_modelAndObs", "dict_oneVar", "dict_twoVar", "ComputeMetric"}

\* Whether name resolves in a function whose locals are the domain of loc.
Bound(name, loc) == name \in DOMAIN loc \/ name \in ModuleGlobals

\* ------------------------------------------------------------------------
\* Metric functions
\* ------------------------------------------------------------------------

EnsoAlphaLhf(sstfile, lhffile, sstname, lhfname, sstbox, lhfbox, o) ==
  LET sst0  == ReadAndSelectRegion(sstfile, sstname, sstbox, o.len1)
      lhf   == ReadAndSelectRegion(lhffile, lhfname, lhfbox, o.len2)
      sst   == CheckUnits(sst0, "temperature")
      yearN == sst.len \div 12
      tr    == <<ReadCall(sstfile, sstname, sstbox), ReadCall(lhffile, lhfname, lhfbox),
                 CheckCall(sst0, "temperature")>> \o RegressionTrace(lhf, sst)
  IN  Ok(RegressionMetric("Latent feedback (alpha_lh)", "W/m2/C",
                          <<"Regression of ", lhfbox, " lhfA over ", sstbox, " sstA">>,
                          yearN, o.reg[0], o.reg[1], o.reg[-1]), tr)

\* The branch on isinstance(file, basestring) / isinstance(file, list) of
\* EnsoAlphaLwr and EnsoAlphaSwr: one field, or the first listed field
\* minus the second.
TwoTermField(file, name, box, o) ==
  IF file.t = "str"
    THEN LET f == ReadAndSelectRegion(file, name, box, o.len2)
         IN  Ok(CheckUnits(f, "heat flux"), <<ReadCall(file, name, box), CheckCall(f, "heat flux")>>)
    ELSE IF Len(file.l) < 1 \/ Len(name.l) < 1
      THEN Err("IndexError", "list index out of range", <<>>)
    ELSE LET down == ReadAndSelectRegion(FStr(file.l[1]), FStr(name.l[1]), box, o.len2)
             tr1  == <<ReadCall(FStr(file.l[1]), FStr(name.l[1]), box), CheckCall(down, "heat flux")>>
         IN  IF Len(file.l) < 2 \/ Len(name.l) < 2
               THEN Err("IndexError", "list index out of range", tr1)
               ELSE LET up == ReadAndSelectRegion(FStr(file.l[2]), FStr(name.l[2]), box, o.len2)
                    IN  Ok(FieldSub(CheckUnits(down, "heat flux"), CheckUnits(up, "heat flux")),
                           tr1 \o <<ReadCall(FStr(file.l[2]), FStr(name.l[2]), box), CheckCall(up, "heat flux")>>)

EnsoAlphaLwr(sstfile, lwrfile, sstname, lwrname, sstbox, lwrbox, o) ==
  LET sst0  == ReadAndSelectRegion(sstfile, sstname, sstbox, o.len1)
      sst   == CheckUnits(sst0, "temperature")
      tr0   == <<ReadCall(sstfile, sstname, sstbox), CheckCall(sst0, "temperature")>>
      lwr   == TwoTermField(lwrfile, lwrname, lwrbox, o)
      yearN == sst.len \div 12
  IN  IF lwr.outcome = "raised"
        THEN Err(lwr.exc.kind, lwr.exc.arg, tr0 \o lwr.trace)
        ELSE Ok(RegressionMetric("Longwave feedback (alpha_lwr)", "W/m2/C",
                                 <<"Regression of ", lwrbox, " lwrA over ", sstbox, " sstA">>,
                                 yearN, o.reg[0], o.reg[1], o.reg[-1]),
                tr0 \o lwr.trace \o RegressionTrace(lwr.value, sst))

EnsoAlphaSwr(sstfile, swrfile, sstname, swrname, sstbox, swrbox, o) ==
  LET sst0  == ReadAndSelectRegion(sstfile, sstname, sstbox, o.len1)
      sst   == CheckUnits(sst0, "temperature")
      tr0   == <<ReadCall(sstfile, sstname, sstbox), CheckCall(sst0, "temperature")>>
      swr   == TwoTermField(swrfile, swrname, swrbox, o)
      yearN == sst.len \div 12
  IN  IF swr.outcome = "raised"
        THEN Err(swr.exc.kind, swr.exc.arg, tr0 \o swr.trace)
        ELSE Ok(RegressionMetric("Shortwave feedback (alpha_sw)", "W/m2/C",
                                 <<"Regression of ", swrbox, " swrA over ", sstbox, " sstA">>,
                                 yearN, o.reg[0], o.reg[1], o.reg[-1]),
                tr0 \o swr.trace \o RegressionTrace(swr.value, sst))

\* The two loops of EnsoAlphaThf over a list of files: every listed field
\* is read and unit-checked, then thf = tmp[0] + tmp[1] + ...
RECURSIVE ThfReads(_, _, _, _, _)
ThfReads(files, names, box, o, ii) ==
  IF ii > Len(files) THEN Ok(<<>>, <<>>)
  ELSE IF ii > Len(names) THEN Err("IndexError", "list index out of range", <<>>)
  ELSE LET val  == ReadAndSelectRegion(FStr(files[ii]), FStr(names[ii]), box, o.len2)
           here == <<ReadCall(FStr(files[ii]), FStr(names[ii]), box), CheckCall(val, "heat flux")>>
           rest == ThfReads(files, names, box, o, ii + 1)
       IN  IF rest.outcome = "raised"
             THEN Err(rest.exc.kind, rest.exc.arg, here \o rest.trace)
             ELSE Ok(<<CheckUnits(val, "heat flux")>> \o rest.value, here \o rest.trace)

RECURSIVE ThfSum(_, _)
ThfSum(tmp, n) == IF n = 1 THEN tmp[1] ELSE FieldAdd(ThfSum(tmp, n - 1), tmp[n])

EnsoAlphaThf(sstfile, thffile, sstname, thfname, sstbox, thfbox, o) ==
  LET sst0  == ReadAndSelectRegion(sstfile, sstname, sstbox, o.len1)
      sst   == CheckUnits(sst0, "temperature")
      tr0   == <<ReadCall(sstfile, sstname, sstbox), CheckCall(sst0, "temperature")>>
      one   == ReadAndSelectRegion(thffile, thfname, thfbox, o.len2)
      tmp   == ThfReads(thffile.l, thfname.l, thfbox, o, 1)
      yearN == sst.len \div 12
      Out(thf, tr) ==
        Ok(RegressionMetric("Heat flux feedback (alpha)", "W/m2/C",
                            <<"Regression of ", thfbox, " thfA over ", sstbox, " sstA">>,
                            yearN, o.reg[0], o.reg[1], o.reg[-1]),
           tr \o RegressionTrace(thf, sst))
  IN  IF thffile.t = "str"
        THEN Out(CheckUnits(one, "heat flux"),
                 tr0 \o <<ReadCall(thffile, thfname, thfbox), CheckCall(one, "heat flux")>>)
      ELSE IF tmp.outcome = "raised"
        THEN Err(tmp.exc.kind, tmp.exc.arg, tr0 \o tmp.trace)
      ELSE IF Len(tmp.value) = 0
        THEN Err("UnboundLocalError", "thf", tr0)
      ELSE Out(ThfSum(tmp.value, Len(tmp.value)), tr0 \o tmp.trace)

\* EnsoAmpl handing the field to the kernel as it was read.
EnsoAmpl_NoCheckUnits(sstfile, sstname, ninobox, o) ==
  LET sst       == ReadAndSelectRegion(sstfile, sstname, ninobox, o.len1)
      yearN     == sst.len \div 12
      sstStd    == o.std
      sstStdErr == NumpyDiv(sstStd, NUMPYsqrt(yearN))
  IN  Ok([name |-> "ENSO amplitude", value |-> sstStd, value_error |-> sstStdErr, units |-> "C",
          method |-> <<"Standard deviation of SSTA in ", ninobox>>,
          nyears |-> yearN, ref |-> "Using CDAT std dev calculation"],
         <<ReadCall(sstfile, sstname, ninobox),
           KernelCall("interannual_variabilty_std_annual_cycle_removed", sst)>>)

EnsoAmpl(sstfile, sstname, ninobox, o) ==
  LET sst0      == ReadAndSelectRegion(sstfile, sstname, ninobox, o.len1)
      sst       == CheckUnits(sst0, "temperature")
      yearN     == sst.len \div 12
      sstStd    == o.std
      sstStdErr == NumpyDiv(sstStd, NUMPYsqrt(yearN))
  IN  Ok([name |-> "ENSO amplitude", value |-> sstStd, value_error |-> sstStdErr, units |-> "C",
          method |-> <<"Standard deviation of SSTA in ", ninobox>>,
          nyears |-> yearN, ref |-> "Using CDAT std dev calculation"],
         <<ReadCall(sstfile, sstname, ninobox), CheckCall(sst0, "temperature"),
           KernelCall("interannual_variabilty_std_annual_cycle_removed", sst)>>)

EnsoMu(sstfile, tauxfile, sstname, tauxname, sstbox, tauxbox, o) ==
  LET sst0  == ReadAndSelectRegion(sstfile, sstname, sstbox, o.len1)
      sst   == CheckUnits(sst0, "temperature")
      taux0 == ReadAndSelectRegion(tauxfile, tauxname, tauxbox, o.len2)
      taux  == CheckUnits(taux0, "wind stress")
      tr0   == <<ReadCall(sstfile, sstname, sstbox), CheckCall(sst0, "temperature"),
                 ReadCall(tauxfile, tauxname, tauxbox), CheckCall(taux0, "wind stress")>>
      yearN == sst.len \div 12
      muSlope    == ComputeMultiply(o.reg[0], 1000)
      muSlopePos == ComputeMultiply(o.reg[1], 1000)
      muSlopeNeg == ComputeMultiply(o.reg[-1], 1000)
  IN  IF sst.len # taux.len /\ ~Bound("MatchTimeDimension", [sst |-> sst, taux |-> taux])
        THEN Err("NameError", "MatchTimeDimension", tr0)
        ELSE Ok([name |-> "Bjerknes feedback (mu)", value |-> muSlope[1], value_error |-> muSlope[2],
                 units |-> "10-3 N/m2/C",
                 method |-> <<"Regression of ", tauxbox, " tauxA over ", sstbox, " sstA">>,
                 nyears |-> yearN, ref |-> "Using CDAT regression calculation",
                 nonlinearity |-> RatSub(muSlopeNeg[1], muSlopePos[1]),
                 nonlinearity_error |-> RatAdd(muSlopeNeg[2], muSlopePos[2])],
                tr0 \o RegressionTrace(taux, sst))

EnsoRMSE(sstfilemodel, sstnamemodel, sstfileobs, sstnameobs, ninobox, om, oo) ==
  LET model0 == ReadAndSelectRegion(sstfilemodel, sstnamemodel, ninobox, om.len1)
      sst_model == CheckUnits(model0, "temperature")
      obs0   == ReadAndSelectRegion(sstfileobs, sstnameobs, ninobox, oo.len1)
      sst_observation == CheckUnits(obs0, "temperature")
      yearN_model == sst_model.len \div 12
      yearN_observation == sst_model.len \div 12
      sstRmse == om.rms
  IN  Ok([name |-> "ENSO RMSE", value |-> sstRmse, value_error |-> PyNone, units |-> "C",
          method |-> <<"Spatial root mean square error SST in ", ninobox>>,
          nyears_model |-> yearN_model, nyears_obs |-> yearN_observation,
          ref |-> "Using CDAT regriding and rms (uncentered and biased) calculation"],
         <<ReadCall(sstfilemodel, sstnamemodel, ninobox), CheckCall(model0, "temperature"),
           ReadCall(sstfileobs, sstnameobs, ninobox), CheckCall(obs0, "temperature"),
           KernelCall("TimeAverage", sst_model), KernelCall("TimeAverage", sst_observation),
           KernelCall("regrid", sst_model),
           [fn |-> "ComputeRms", model |-> sst_model, obs |-> sst_observation]>>)

EnsoSeasonality(sstfile, sstname, ninobox, o) ==
  LET sst0  == ReadAndSelectRegion(sstfile, sstname, ninobox, o.len1)
      sst   == CheckUnits(sst0, "temperature")
      yearN == sst.len \div 12
      sst_NDJ_std == o.stdNDJ
      sst_MAM_std == o.stdMAM
      ratioStd == PyDiv(sst_NDJ_std, sst_MAM_std, o.numpy)
      sst_NDJ_std_err == NumpyDiv(sst_NDJ_std, NUMPYsqrt(yearN - 1))
      sst_MAM_std_err == NumpyDiv(sst_MAM_std, NUMPYsqrt(yearN))
      ratio_std_err ==
        NumpyDiv(RatAdd(RatMul(sst_MAM_std, sst_NDJ_std_err), RatMul(sst_NDJ_std, sst_MAM_std_err)),
                 NUMPYsquare(sst_MAM_std_err))
      tr == <<ReadCall(sstfile, sstname, ninobox), CheckCall(sst0, "temperature"),
           KernelCall("SeasonalMean NDJ", sst), KernelCall("SpatialAverage", sst),
           KernelCall("SeasonalMean MAM", sst), KernelCall("SpatialAverage", sst),
           KernelCall("ComputeStd NDJ", sst), KernelCall("ComputeStd MAM", sst)>>
  IN  IF ratioStd.outcome = "raised"
        THEN Err(ratioStd.exc.kind, ratioStd.exc.arg, tr)
        ELSE Ok([name |-> "ENSO Seasonality", value |-> ratioStd.value, value_error |-> ratio_std_err,
                 units |-> "",
                 method |-> <<"Ratio between NDJ and MAM standard deviation of SSTA in ", ninobox>>,
                 nyears |-> yearN, ref |-> "Using CDAT std dev calculation"], tr)

\* ------------------------------------------------------------------------
\* The three dispatch registries: metric name -> metric function
\* ------------------------------------------------------------------------

dict_oneVar_modelAndObs == ("EnsoRMSE" :> "EnsoRMSE")

\* dict_oneVar with the joint metric registered a second time.
dict_oneVar_WithEnsoRMSE ==
  ("EnsoAmpl" :> "EnsoAmpl" @@ "EnsoSeasonality" :> "EnsoSeasonality" @@ "EnsoRMSE" :> "EnsoRMSE")

dict_oneVar == ("EnsoAmpl" :> "EnsoAmpl" @@ "EnsoSeasonality" :> "EnsoSeasonality")

dict_twoVar ==
  ("EnsoAlphaLhf" :> "EnsoAlphaLhf" @@ "EnsoAlphaLwr" :> "EnsoAlphaLwr"
   @@ "EnsoAlphaSwr" :> "EnsoAlphaSwr" @@ "EnsoAlphaThf" :> "EnsoAlphaThf"
   @@ "EnsoMu" :> "EnsoMu")

\* dict_oneVar[metric](file, name, region)
CallOneVar(f, file, name, region, o) ==
  CASE f = "EnsoAmpl"        -> EnsoAmpl(file, name, region, o)
    [] f = "EnsoSeasonality" -> EnsoSeasonality(file, name, region, o)

\* dict_twoVar[metric](file1, file2, name1, name2, region1, region2)
CallTwoVar(f, file1, file2, name1, name2, region1, region2, o) ==
  CASE f = "EnsoAlphaLhf" -> EnsoAlphaLhf(file1, file2, name1, name2, region1, region2, o)
    [] f = "EnsoAlphaLwr" -> EnsoAlphaLwr(file1, file2, name1, name2, region1, region2, o)
    [] f = "EnsoAlphaSwr" -> EnsoAlphaSwr(file1, file2, name1, name2, region1, region2, o)
    [] f = "EnsoAlphaThf" -> EnsoAlphaThf(file1, file2, name1, name2, region1, region2, o)
    [] f = "EnsoMu"       -> EnsoMu(file1, file2, name1, name2, region1, region2, o)

\* The branch ComputeMetric takes for a metric name: the registries are
\* tested in the order of lines 612, 621, 624.
Category(metric) ==
  IF metric \in DOMAIN dict_oneVar_modelAndObs THEN "oneVar_modelAndObs"
  ELSE IF metric \in DOMAIN dict_oneVar THEN "oneVar"
  ELSE IF metric \in DOMAIN dict_twoVar THEN "twoVar"
  ELSE "none"

\* ------------------------------------------------------------------------
\* ComputeMetric, statement by statement.  loc holds the locals bound so
\* far (the parameters first); om and oo are what the collaborators return
\* for the model handles and for the observation handles.
\* ------------------------------------------------------------------------

\* metricReqs is called on line 605 and defined nowhere in the sources: the
\* list of the metric's variables, as the collections give it.
metricReqs(metric) ==
  IF metric \in DOMAIN metrics_collection["all_metrics"].metrics_list
    THEN Return([var_names |-> metrics_collection["all_metrics"].metrics_list[metric].variables])
    ELSE Raise("KeyError", metric)

\* s[key] for a str s and a str key
SubscriptStr(s, key) == Raise("TypeError", "string indices must be integers, not str")

\* Lines 639-650: try: metric_mod['nonlinearity'] / except: pass / else: ...
ComputeMetric_Nonlinearity(metric_mod, metric_obs, metric_val, numpy, tr) ==
  IF "nonlinearity" \notin DOMAIN metric_mod
    THEN Ok(metric_val, tr)
  ELSE IF "nonlinearity" \notin DOMAIN metric_obs
    THEN Err("KeyError", "nonlinearity", tr)
  ELSE LET v1   == metric_mod.nonlinearity
           v2   == metric_obs.nonlinearity
           err1 == metric_mod.nonlinearity_error
           err2 == metric_obs.nonlinearity_error
           val2 == PyDiv(metric_mod.value, metric_obs.value, numpy)
           val2_err == NumpyDiv(RatAdd(RatMul(v1, err2), RatMul(v2, err1)), NUMPYsquare(v2))
       IN  IF val2.outcome = "raised"
             THEN Err(val2.exc.kind, val2.exc.arg, tr)
             ELSE Ok([nonlinearity_model |-> v1, nonlinearity_error_model |-> err1,
                      nonlinearity_observations |-> v2, nonlinearity_error_observations |-> err2,
                      metric_nonlinearity |-> val2.value, metric_nonlinearity_error |-> val2_err]
                     @@ metric_val, tr)

\* Lines 627-638, then 639-651.
ComputeMetric_Ratio(loc, tr) ==
  IF ~Bound("metric_mod", loc)
    THEN Err("UnboundLocalError", "metric_mod", tr)
  ELSE LET metric_mod == loc.metric_mod
           metric_obs == loc.metric_obs
           numpy == loc.numpy
           v1   == metric_mod.value
           v2   == metric_obs.value
           err1 == metric_mod.value_error
           err2 == metric_obs.value_error
           val1 == PyDiv(metric_mod.value, metric_obs.value, numpy)
           val1_err == NumpyDiv(RatAdd(RatMul(v1, err2), RatMul(v2, err1)), NUMPYsquare(v2))
           nyears_model == SubscriptStr(loc.metric, "nyears_model")
           nyears_obs   == SubscriptStr(loc.metric, "nyears_obs")
       IN  IF val1.outcome = "raised"
             THEN Err(val1.exc.kind, val1.exc.arg, tr)
           ELSE IF nyears_model.outcome = "raised"
             THEN Err(nyears_model.exc.kind, nyears_model.exc.arg, tr)
           ELSE IF nyears_obs.outcome = "raised"
             THEN Err(nyears_obs.exc.kind, nyears_obs.exc.arg, tr)
           ELSE ComputeMetric_Nonlinearity(metric_mod, metric_obs,
                  [name |-> metric_mod.name, metric |-> val1.value, metric_error |-> val1_err,
                   comment |-> "The metric is the ratio value_model / value_observations",
                   model |-> loc.modelName,
                   nyears_model |-> nyears_model.value, value_model |-> v1, value_error_model |-> err1,
                   observations |-> loc.obsName, nyears_observations |-> nyears_obs.value,
                   value_observations |-> v2, value_error_observations |-> err2,
                   units |-> metric_mod.units, method |-> metric_mod.method, ref |-> metric_mod.ref],
                  numpy, tr)

\* Line 613-619: the joint function, called once, and the result record.
ComputeMetric_ModelAndObs(loc, om, oo) ==
  IF ~Bound("region1", loc)
    THEN Err("NameError", "region1", <<>>)
  ELSE LET metric_mod_obs == EnsoRMSE(loc.modelFile1, loc.modelVarName1, loc.obsFile1,
                                      loc.obsVarName1, loc["region1"], om, oo)
       IN  IF metric_mod_obs.outcome = "raised"
             THEN metric_mod_obs
           ELSE IF ~Bound("Ref", loc)
             THEN Err("NameError", "Ref", metric_mod_obs.trace)
           ELSE Ok([name |-> metric_mod_obs.value.name, metric |-> metric_mod_obs.value.value,
                    metric_error |-> metric_mod_obs.value.value_error,
                    comment |-> "The metric is the statistical value between the model and the observations",
                    model |-> loc.modelName, nyears_model |-> metric_mod_obs.value.nyears_model,
                    observations |-> loc.obsName,
                    nyears_observations |-> metric_mod_obs.value.nyears_obs,
                    units |-> metric_mod_obs.value.units, method |-> metric_mod_obs.value.method,
                    ref |-> loc["Ref"]],
                   metric_mod_obs.trace)

\* Lines 622-623 and 625-626: the metric function on the model handles,
\* then the same function on the observation handles.
ComputeMetric_ModelThenObs(loc, om, oo) ==
  LET two == loc.metric \notin DOMAIN dict_oneVar
      metric_mod ==
        IF two
          THEN CallTwoVar(dict_twoVar[loc.metric], loc.modelFile1, loc.modelFile2, loc.modelVarName1,
                          loc.modelVarName2, loc["region1"], loc["region2"], om)
          ELSE CallOneVar(dict_oneVar[loc.metric], loc.modelFile1, loc.modelVarName1, loc["region1"], om)
      metric_obs ==
        IF two
          THEN CallTwoVar(dict_twoVar[loc.metric], loc.obsFile1, loc.obsFile2, loc.obsVarName1,
                          loc.obsVarName2, loc["region1"], loc["region2"], oo)
          ELSE CallOneVar(dict_oneVar[loc.metric], loc.obsFile1, loc.obsVarName1, loc["region1"], oo)
  IN  IF ~Bound("region1", loc)
        THEN Err("NameError", "region1", <<>>)
      ELSE IF two /\ ~Bound("region2", loc)
        THEN Err("NameError", "region2", <<>>)
      ELSE IF metric_mod.outcome = "raised"
        THEN metric_mod
      ELSE IF metric_obs.outcome = "raised"
        THEN Err(metric_obs.exc.kind, metric_obs.exc.arg, metric_mod.trace \o metric_obs.trace)
      ELSE ComputeMetric_Ratio([metric_mod |-> metric_mod.value, metric_obs |-> metric_obs.value,
                                numpy |-> om.numpy \/ oo.numpy] @@ loc,
                               metric_mod.trace \o metric_obs.trace)

\* Lines 612-626: the branch on the registry that holds the metric.
ComputeMetric_Dispatch(loc, om, oo) ==
  IF Category(loc.metric) = "oneVar_modelAndObs"
    THEN ComputeMetric_ModelAndObs(loc, om, oo)
  ELSE IF Category(loc.metric) \in {"oneVar", "twoVar"}
    THEN ComputeMetric_ModelThenObs(loc, om, oo)
  ELSE ComputeMetric_Ratio(loc, <<>>)

\* Lines 606-610: the default regions where the caller gave none.  The
\* lookup for the second variable is inside try / except: pass.
ComputeMetric_Regions(loc, om, oo) ==
  LET dict_regions == loc.dict_regions
      var_names    == loc.var_names
      second == IF loc.regionVar2 # "" \/ Len(var_names) < 3 \/ var_names[3] \notin DOMAIN dict_regions
                  THEN loc.regionVar2
                  ELSE dict_regions[var_names[3]]
  IN  IF loc.regionVar1 # ""
        THEN ComputeMetric_Dispatch([loc EXCEPT !.regionVar2 = second], om, oo)
      ELSE IF Len(var_names) < 1
        THEN Err("IndexError", "list index out of range", <<>>)
      ELSE IF var_names[1] \notin DOMAIN dict_regions
        THEN Err("KeyError", var_names[1], <<>>)
      ELSE ComputeMetric_Dispatch([loc EXCEPT !.regionVar1 = dict_regions[var_names[1]],
                                              !.regionVar2 = second], om, oo)

\* Line 605: var_names = metricReqs(metric)['var_names']
ComputeMetric_Reqs(loc, om, oo) ==
  IF ~Bound("metricReqs", loc)
    THEN Err("NameError", "metricReqs", <<>>)
  ELSE LET reqs == metricReqs(loc.metric)
       IN  IF reqs.outcome = "raised"
             THEN Err(reqs.exc.kind, reqs.exc.arg, <<>>)
             ELSE ComputeMetric_Regions([var_names |-> reqs.value.var_names] @@ loc, om, oo)

\* ComputeMetric with its lookups inside try / except: pass, so that a call
\* whose lookup fails goes on and returns what it has.
ComputeMetric_SwallowsLookupFailure(args, om, oo) ==
  Ok([name |-> args.metric, model |-> args.modelName, observations |-> args.obsName], <<>>)

\* Line 604: dict_regions = defCollection(MetricCollection)['dict_of_regions'][metric]
ComputeMetric(args, om, oo) ==
  IF ~Bound("defCollection", args)
    THEN Err("NameError", "defCollection", <<>>)
  ELSE LET coll == defCollection(PyStr(args.MetricCollection))
       IN  IF coll.outcome = "raised"
             THEN Err(coll.exc.kind, coll.exc.arg, <<>>)
           ELSE IF "dict_of_regions" \notin DOMAIN coll.value
             THEN Err("KeyError", "dict_of_regions", <<>>)
           ELSE IF args.metric \notin DOMAIN coll.value["dict_of_regions"]
             THEN Err("KeyError", args.metric, <<>>)
           ELSE ComputeMetric_Reqs([dict_regions |-> coll.value["dict_of_regions"][args.metric]] @@ args,
                                   om, oo)

\* ------------------------------------------------------------------------
\* Inputs
\* ------------------------------------------------------------------------

\* Longest time axis a field reader returns, in years of monthly steps.
MaxYears == 2

\* Time-axis lengths: whole years, and one series shorter than a year.
Lens == {6} \cup {12 * y : y \in 1..MaxYears}

Q(n, d) == Rat(n, d)

\* What the statistics kernels return, three cases: the slopes 2.0 (all),
\* 1.5 (positive), 2.0 (negative); all slopes 1.0; an all-points slope and
\* standard deviations of zero.
KernelResults ==
  { [reg |-> (0 :> <<Q(2, 1), Q(1, 10)>> @@ 1 :> <<Q(3, 2), Q(1, 10)>> @@ -1 :> <<Q(2, 1), Q(1, 10)>>),
     std |-> Q(2, 1), stdNDJ |-> Q(2, 1), stdMAM |-> Q(1, 1), rms |-> Q(1, 2)],
    [reg |-> (0 :> <<Q(1, 1), Q(1, 20)>> @@ 1 :> <<Q(1, 1), Q(1, 20)>> @@ -1 :> <<Q(1, 1), Q(1, 20)>>),
     std |-> Q(1, 1), stdNDJ |-> Q(1, 1), stdMAM |-> Q(1, 2), rms |-> Q(0, 1)],
    [reg |-> (0 :> <<Q(0, 1), Q(1, 20)>> @@ 1 :> <<Q(1, 1), Q(1, 20)>> @@ -1 :> <<Q(3, 1), Q(1, 10)>>),
     std |-> Q(0, 1), stdNDJ |-> Q(1, 1), stdMAM |-> Q(0, 1), rms |-> Q(2, 1)] }

Oracle(k, len1, len2, numpy) == [len1 |-> len1, len2 |-> len2, numpy |-> numpy] @@ k

\* Every reading of the collaborators, for a direct call of a metric function.
Oracles == {Oracle(k, l1, l2, np) : k \in KernelResults, l1 \in Lens, l2 \in Lens, np \in BOOLEAN}

\* The readings a ComputeMetric call is tried with: whole-year fields of
\* equal length.
FullOracles(np) == {Oracle(k, 12 * MaxYears, 12 * MaxYears, np) : k \in KernelResults}

CollectionIds == DOMAIN metrics_collection

CollectionMetrics == UNION {DOMAIN metrics_collection[c].metrics_list : c \in CollectionIds}

RegisteredMetrics == DOMAIN dict_oneVar_modelAndObs \cup DOMAIN dict_oneVar \cup DOMAIN dict_twoVar

\* Identifiers the operations are called with: every key of every catalog
\* and registry, and a name that is a key of none.
Ids ==
  CollectionIds \cup CollectionMetrics \cup RegisteredMetrics
  \cup DOMAIN dict_ref_obs \cup DOMAIN dict_reference_regions \cup {"no_such_id"}

AccessorArgs == {PyTrue} \cup {PyStr(id) : id \in Ids}

\* The second field of a regression metric: one file and variable name,
\* or the list of the terms CmipVariables gives for a composite variable
\* (each term's file is known by the term's name), or empty lists.
SecondFields ==
  {[file |-> FStr("taux.nc"), name |-> FStr("tauu")], [file |-> FList(<<>>), name |-> FList(<<>>)]}
  \cup {[file |-> FList(dict_cmip_variables.variable_name_in_file[v].var_name.l),
         name |-> FList(dict_cmip_variables.variable_name_in_file[v].var_name.l)] :
          v \in {w \in DOMAIN dict_cmip_variables.variable_name_in_file :
                   dict_cmip_variables.variable_name_in_file[w].var_name.t = "list"}}

ComputeMetricArgs(MetricCollection, metric, regionVar1, regionVar2) ==
  [MetricCollection |-> MetricCollection, metric |-> metric, modelName |-> "model",
   modelFile1 |-> FStr("model_1.nc"), modelVarName1 |-> FStr("ts"),
   obsName |-> "obs", obsFile1 |-> FStr("obs_1.nc"), obsVarName1 |-> FStr("sst"),
   regionVar1 |-> regionVar1, regionVar2 |-> regionVar2,
   modelFile2 |-> FStr("model_2.nc"), modelVarName2 |-> FStr("tauu"),
   obsFile2 |-> FStr("obs_2.nc"), obsVarName2 |-> FStr("taux")]

\* ------------------------------------------------------------------------
\* State: the call the caller has made and not yet taken the result of,
\* with its inputs and its outcome; op = "none" between calls.  The
\* library keeps nothing from one call to the next.
\* ------------------------------------------------------------------------

Called(op, arg, cm, om, oo, res) ==
  [op |-> op, arg |-> arg, cm |-> cm, om |-> om, oo |-> oo, res |-> res]

Idle == Called("none", PyTrue, <<>>, <<>>, <<>>, Ok(<<>>, <<>>))

\* Callers that may be inside the library at the same time, each with
\* the call it is making: its arguments are bound when the call begins
\* (pc = "running") and its outcome exists when the call ends (pc = "done").
\* overlapped records that another call was running during this one.
Callers == {"caller_1", "caller_2"}

NoCall ==
  [pc |-> "idle", op |-> "none", arg |-> PyTrue, cm |-> <<>>, res |-> Ok(<<>>, <<>>),
   overlapped |-> FALSE]

\* The first defCollection call that ended, with its argument and outcome.
NoFirst == [set |-> FALSE, arg |-> PyTrue, res |-> Ok(<<>>, <<>>)]

Init ==
  /\ last = Idle
  /\ calls = [t \in Callers |-> NoCall]
  /\ first = NoFirst

WithTrace(r) == [trace |-> <<>>] @@ r

Call_defCollection ==
  /\ last.op = "none"
  /\ \E mc \in AccessorArgs :
       last' = Called("defCollection", mc, <<>>, <<>>, <<>>, WithTrace(defCollection(mc)))
  /\ UNCHANGED <<calls, first>>

Call_ReferenceObservations ==
  /\ last.op = "none"
  /\ \E dataset \in AccessorArgs :
       last' = Called("ReferenceObservations", dataset, <<>>, <<>>, <<>>,
                      WithTrace(ReferenceObservations(dataset)))
  /\ UNCHANGED <<calls, first>>

Call_ReferenceRegions ==
  /\ last.op = "none"
  /\ \E region \in AccessorArgs :
       last' = Called("ReferenceRegions", region, <<>>, <<>>, <<>>, WithTrace(ReferenceRegions(region)))
  /\ UNCHANGED <<calls, first>>

Call_CmipVariables ==
  /\ last.op = "none"
  /\ last' = Called("CmipVariables", PyTrue, <<>>, <<>>, <<>>, WithTrace(CmipVariables))
  /\ UNCHANGED <<calls, first>>

Call_ComputeMetric ==
  /\ last.op = "none"
  /\ \E MetricCollection \in CollectionIds \cup {"no_such_id"},
        metric \in CollectionMetrics \cup RegisteredMetrics \cup {"no_such_id"},
        regionVar1 \in {"", "nino3"}, regionVar2 \in {"", "nino4"}, np \in BOOLEAN :
       \E om \in FullOracles(np), oo \in FullOracles(np) :
         LET args == ComputeMetricArgs(MetricCollection, metric, regionVar1, regionVar2)
         IN  last' = Called("ComputeMetric", PyTrue, args, om, oo, ComputeMetric(args, om, oo))
  /\ UNCHANGED <<calls, first>>

\* Direct calls of the metric functions.
Call_OneVar ==
  /\ last.op = "none"
  /\ \E f \in DOMAIN dict_oneVar, o \in Oracles :
       /\ o.len2 = o.len1
       /\ last' = Called(f, PyTrue, [file1 |-> FStr("sst.nc"), name1 |-> FStr("ts"), box1 |-> "nino3"],
                         o, <<>>, CallOneVar(f, FStr("sst.nc"), FStr("ts"), "nino3", o))
  /\ UNCHANGED <<calls, first>>

Call_TwoVar ==
  /\ last.op = "none"
  /\ \E f \in DOMAIN dict_twoVar, second \in SecondFields, o \in Oracles :
       last' = Called(f, PyTrue,
                      [file1 |-> FStr("sst.nc"), name1 |-> FStr("ts"), box1 |-> "nino3",
                       file2 |-> second.file, name2 |-> second.name, box2 |-> "nino4"],
                      o, <<>>,
                      CallTwoVar(f, FStr("sst.nc"), second.file, FStr("ts"), second.name,
                                 "nino3", "nino4", o))
  /\ UNCHANGED <<calls, first>>

Call_EnsoRMSE ==
  /\ last.op = "none"
  /\ \E om \in Oracles, oo \in Oracles :
       /\ om.len2 = om.len1 /\ oo.len2 = oo.len1 /\ oo.numpy = om.numpy
       /\ last' = Called("EnsoRMSE", PyTrue,
                         [file1 |-> FStr("model_sst.nc"), name1 |-> FStr("ts"),
                          file2 |-> FStr("obs_sst.nc"), name2 |-> FStr("sst"), box1 |-> "nino3"],
                         om, oo,
                         EnsoRMSE(FStr("model_sst.nc"), FStr("ts"), FStr("obs_sst.nc"), FStr("sst"),
                                  "nino3", om, oo))
  /\ UNCHANGED <<calls, first>>

\* The caller takes the result (or catches the exception) of the call.
TakeResult ==
  /\ last.op # "none"
  /\ last' = Idle
  /\ UNCHANGED <<calls, first>>

Next ==
  \/ Call_defCollection
  \/ Call_ReferenceObservations
  \/ Call_ReferenceRegions
  \/ Call_CmipVariables
  \/ Call_ComputeMetric
  \/ Call_OneVar
  \/ Call_TwoVar
  \/ Call_EnsoRMSE
  \/ TakeResult

Spec == Init /\ [][Next]_vars

\* ------------------------------------------------------------------------
\* Several callers inside the library at once.  A call binds its arguments
\* to its own parameters when it begins and produces its outcome when it
\* ends; between the two, other callers' calls may begin and end.  Every
\* ComputeMetric call ends at its first statement (line 604), so a call is
\* these two steps.  The functions assign to their locals only, and each
\* accessor builds its table anew in every call.
\* ------------------------------------------------------------------------

\* What the collaborators return in these calls.
SessionOracle ==
  Oracle(CHOOSE k \in KernelResults : ~IsZero(k.std) /\ IsZero(k.rms), 12, 12, FALSE)

SessionCollections == {"ENSO_perf", "ENSO_proc", "ENSO_tel", "no_such_id"}

SessionMetrics == {"EnsoAmpl", "EnsoMu", "EnsoRMSE", "BiasPrLatRmse"}

Running(op, arg, cm, overlapped) ==
  [pc |-> "running", op |-> op, arg |-> arg, cm |-> cm, res |-> Ok(<<>>, <<>>),
   overlapped |-> overlapped]

\* The calls after caller t begins a call: every call running at that
\* moment overlaps with the new one.
Begin(t, op, arg, cm) ==
  [u \in Callers |->
     IF u = t THEN Running(op, arg, cm, \E v \in Callers \ {t} : calls[v].pc = "running")
     ELSE IF calls[u].pc = "running" THEN [calls[u] EXCEPT !.overlapped = TRUE]
     ELSE calls[u]]

\* A caller tried ComputeMetric while another call was running.
ComputeOutcome_NotReentrant(t, cs) ==
  IF \E u \in Callers \ {t} : cs[u].pc = "running"
    THEN Err("RuntimeError", "busy", <<>>)
    ELSE ComputeMetric(cs[t].cm, SessionOracle, SessionOracle)

\* The outcome of caller t's ComputeMetric call: ComputeMetric on the
\* call's own arguments.
ComputeOutcome(t, cs) == ComputeMetric(cs[t].cm, SessionOracle, SessionOracle)

\* defCollection keeping its argument where a later call overwrites it.
ResolveOutcome_SharedArgument(t, cs) ==
  IF \E u \in Callers \ {t} : cs[u].pc = "running" /\ cs[u].op = "defCollection"
    THEN LET u == CHOOSE v \in Callers \ {t} : cs[v].pc = "running" /\ cs[v].op = "defCollection"
         IN  WithTrace(defCollection(cs[u].arg))
    ELSE WithTrace(defCollection(cs[t].arg))

\* The outcome of caller t's defCollection call.
ResolveOutcome(t, cs) == WithTrace(defCollection(cs[t].arg))

SessionInit == Init

Begin_ComputeMetric ==
  \E t \in Callers :
    /\ calls[t].pc = "idle"
    /\ \E MetricCollection \in SessionCollections, metric \in SessionMetrics,
          regionVar1 \in {"", "nino3"} :
         calls' = Begin(t, "ComputeMetric", PyTrue,
                        ComputeMetricArgs(MetricCollection, metric, regionVar1, ""))
    /\ UNCHANGED <<last, first>>

Begin_defCollection ==
  \E t \in Callers :
    /\ calls[t].pc = "idle"
    /\ \E mc \in SessionCollections : calls' = Begin(t, "defCollection", PyStr(mc), <<>>)
    /\ UNCHANGED <<last, first>>

End_ComputeMetric ==
  \E t \in Callers :
    /\ calls[t].pc = "running" /\ calls[t].op = "ComputeMetric"
    /\ calls' = [calls EXCEPT ![t].pc = "done", ![t].res = ComputeOutcome(t, calls)]
    /\ UNCHANGED <<last, first>>

End_defCollection ==
  \E t \in Callers :
    /\ calls[t].pc = "running" /\ calls[t].op = "defCollection"
    /\ calls' = [calls EXCEPT ![t].pc = "done", ![t].res = ResolveOutcome(t, calls)]
    /\ first' = IF first.set THEN first
                ELSE [set |-> TRUE, arg |-> calls[t].arg, res |-> ResolveOutcome(t, calls)]
    /\ UNCHANGED last

\* The caller takes the outcome of its call.
Take ==
  \E t \in Callers :
    /\ calls[t].pc = "done"
    /\ calls' = [calls EXCEPT ![t] = NoCall]
    /\ UNCHANGED <<last, first>>

SessionNext ==
  \/ Begin_ComputeMetric
  \/ Begin_defCollection
  \/ End_ComputeMetric
  \/ End_defCollection
  \/ Take

SessionSpec == SessionInit /\ [][SessionNext]_vars

\* ------------------------------------------------------------------------
\* Properties
\* ------------------------------------------------------------------------

IsComputeMetric == last.op = "ComputeMetric"

\* The collection of the call exists and lists the metric of the call.
CollectionOffersMetric ==
  /\ last.cm.MetricCollection \in DOMAIN metrics_collection
  /\ last.cm.metric \in DOMAIN metrics_collection[last.cm.MetricCollection].metrics_list

\* The statistic the observation side is divided by is not zero.
ObsStatisticNonzero == ~IsZero(last.oo.reg[0][1]) /\ ~IsZero(last.oo.std) /\ ~IsZero(last.oo.stdMAM)

ObsStatisticZero == IsZero(last.oo.reg[0][1]) /\ IsZero(last.oo.std)

\* The difference of the negative and positive slopes on the observation side.
ObsNonlinearity == RatSub(last.oo.reg[-1][1], last.oo.reg[1][1])

\* C1: a ComputeMetric call for a metric of a collection's metrics_list,
\* with collaborators that succeed and a nonzero observation statistic,
\* ends by returning a result record and never by raising.
C1_CollectionMetricReturns ==
  (IsComputeMetric /\ CollectionOffersMetric /\ ObsStatisticNonzero)
    => last.res.outcome = "returned"

\* C2: for a metric of dict_oneVar or dict_twoVar and a nonzero
\* observation value, ComputeMetric returns metric = value_model / value_obs
\* and metric_error = (value_model * err_obs + value_obs * err_model) / value_obs^2.
C2_RatioAndQuotientError ==
  (/\ IsComputeMetric
   /\ last.cm.MetricCollection \in DOMAIN metrics_collection
   /\ last.cm.metric \in DOMAIN dict_oneVar \cup DOMAIN dict_twoVar
   /\ ObsStatisticNonzero)
    => /\ last.res.outcome = "returned"
       /\ LET r == last.res.value
          IN  /\ r.metric = NumpyDiv(r.value_model, r.value_observations)
              /\ r.metric_error =
                   NumpyDiv(RatAdd(RatMul(r.value_model, r.value_error_observations),
                                   RatMul(r.value_observations, r.value_error_model)),
                            RatMul(r.value_observations, r.value_observations))

\* C3: for a metric of dict_twoVar the nonlinearity channel is normalised
\* like the primary one: metric_nonlinearity = nonlinearity_model /
\* nonlinearity_obs, with the quotient error of the nonlinearity values.
C3_NonlinearityRatio ==
  (/\ IsComputeMetric
   /\ last.cm.MetricCollection \in DOMAIN metrics_collection
   /\ last.cm.metric \in DOMAIN dict_twoVar
   /\ ObsStatisticNonzero
   /\ ~IsZero(ObsNonlinearity))
    => /\ last.res.outcome = "returned"
       /\ LET r == last.res.value
          IN  /\ r.metric_nonlinearity = NumpyDiv(r.nonlinearity_model, r.nonlinearity_observations)
              /\ r.metric_nonlinearity_error =
                   NumpyDiv(RatAdd(RatMul(r.nonlinearity_model, r.nonlinearity_error_observations),
                                   RatMul(r.nonlinearity_observations, r.nonlinearity_error_model)),
                            RatMul(r.nonlinearity_observations, r.nonlinearity_observations))

\* C4: with a zero observation statistic as divisor ComputeMetric ends in
\* a numeric error (Python's ZeroDivisionError counts as one), and it never
\* returns a record holding a non-finite metric.
C4_ZeroDivisorIsNumericError ==
  (/\ IsComputeMetric
   /\ last.cm.MetricCollection \in DOMAIN metrics_collection
   /\ last.cm.metric \in DOMAIN dict_oneVar \cup DOMAIN dict_twoVar
   /\ ObsStatisticZero)
    => /\ last.res.outcome = "raised"
       /\ last.res.exc.kind \in {"NumericError", "ZeroDivisionError", "FloatingPointError"}

\* C5: an unknown collection id, or a metric id that is not in the (valid)
\* collection, ends the call in a configuration error (the KeyError of a
\* failed lookup counts as one) that carries the offending identifier,
\* before any collaborator is invoked.
C5_UnknownIdIsConfigurationError ==
  (IsComputeMetric /\ ~CollectionOffersMetric)
    => /\ last.res.outcome = "raised"
       /\ last.res.exc.kind \in {"ConfigurationError", "KeyError"}
       /\ last.res.exc.arg = (IF last.cm.MetricCollection \in DOMAIN metrics_collection
                                THEN last.cm.metric ELSE last.cm.MetricCollection)
       /\ last.res.trace = <<>>

IsAccessor == last.op \in {"defCollection", "ReferenceObservations", "ReferenceRegions"}

\* The table behind the accessor of the call.
Catalog ==
  CASE last.op = "defCollection"         -> metrics_collection
    [] last.op = "ReferenceObservations" -> dict_ref_obs
    [] last.op = "ReferenceRegions"      -> dict_reference_regions

\* What C6 says of a call with a present id and of a call with no argument.
AccessorReturnsEntryOrCatalog ==
  /\ last.arg.kind = "bool"
       => last.res.outcome = "returned" /\ last.res.value = Catalog
  /\ (last.arg.kind = "str" /\ last.arg.id \in DOMAIN Catalog)
       => last.res.outcome = "returned" /\ last.res.value = Catalog[last.arg.id]

Registry(r) ==
  CASE r = "oneVar_modelAndObs" -> dict_oneVar_modelAndObs
    [] r = "oneVar"             -> dict_oneVar
    [] r = "twoVar"             -> dict_twoVar

RegistryNames == {"oneVar_modelAndObs", "oneVar", "twoVar"}

RegistriesHolding(metric) == {r \in RegistryNames : metric \in DOMAIN Registry(r)}

TestOrders == {o \in [1..3 -> RegistryNames] : \A r \in RegistryNames : \E i \in 1..3 : o[i] = r}

CategoryInOrder(metric, o) ==
  IF metric \in DOMAIN Registry(o[1]) THEN o[1]
  ELSE IF metric \in DOMAIN Registry(o[2]) THEN o[2]
  ELSE IF metric \in DOMAIN Registry(o[3]) THEN o[3]
  ELSE "none"

\* C7: the three registries are pairwise disjoint, so a registered metric
\* of a ComputeMetric call is in exactly one of them and the branch
\* selection gives its category whatever the order of the tests.
C7_OneCategoryPerRegisteredMetric ==
  /\ \A r1, r2 \in RegistryNames : r1 # r2 => DOMAIN Registry(r1) \cap DOMAIN Registry(r2) = {}
  /\ (IsComputeMetric /\ last.cm.metric \in RegisteredMetrics)
       => /\ Cardinality(RegistriesHolding(last.cm.metric)) = 1
          /\ \A o \in TestOrders : CategoryInOrder(last.cm.metric, o) = Category(last.cm.metric)
          /\ Category(last.cm.metric) \in RegistriesHolding(last.cm.metric)

C7_Witness ==
  /\ IsComputeMetric
  /\ last.cm.metric = "EnsoMu"
  /\ Category(last.cm.metric) = "twoVar"

\* C8: every metric a collection lists is a key of exactly one registry,
\* so the branch selection of a ComputeMetric call for it finds a category.
C8_CollectionMetricsAreRegistered ==
  (IsComputeMetric /\ CollectionOffersMetric)
    => /\ Cardinality(RegistriesHolding(last.cm.metric)) = 1
       /\ Category(last.cm.metric) # "none"

\* Number of trace entries made by the named collaborator.
Calls(tr, fn) == Cardinality({i \in 1..Len(tr) : tr[i].fn = fn})

\* C9: for a metric of dict_oneVar_modelAndObs the joint function is
\* invoked once, on the model and the observation handles, the returned
\* metric is that invocation's value, and the record has no nonlinearity
\* field.
C9_JointMetricOnceNoNonlinearity ==
  (/\ IsComputeMetric
   /\ last.cm.MetricCollection \in DOMAIN metrics_collection
   /\ last.cm.metric \in DOMAIN dict_oneVar_modelAndObs)
    => /\ last.res.outcome = "returned"
       /\ Calls(last.res.trace, "ComputeRms") = 1
       /\ \E box \in DOMAIN dict_reference_regions \cup {"nino3"} :
            LET joint == EnsoRMSE(last.cm.modelFile1, last.cm.modelVarName1, last.cm.obsFile1,
                                  last.cm.obsVarName1, box, last.om, last.oo)
            IN  last.res.trace = joint.trace /\ last.res.value.metric = joint.value.value
       /\ DOMAIN last.res.value
            \cap {"nonlinearity_model", "nonlinearity_error_model", "nonlinearity_observations",
                  "nonlinearity_error_observations", "metric_nonlinearity",
                  "metric_nonlinearity_error"} = {}

\* The invocation of the metric's function on one side's handles.
Invocation(metric, file1, name1, file2, name2, box1, box2, o) ==
  IF metric \in DOMAIN dict_oneVar
    THEN CallOneVar(dict_oneVar[metric], file1, name1, box1, o)
    ELSE CallTwoVar(dict_twoVar[metric], file1, file2, name1, name2, box1, box2, o)

\* C10: for a metric of dict_oneVar or dict_twoVar one call invokes the
\* metric's function twice, on the model handles and then on the
\* observation handles, with the same regions, and returns after both.
C10_ModelThenObservation ==
  (/\ IsComputeMetric
   /\ last.cm.MetricCollection \in DOMAIN metrics_collection
   /\ last.cm.metric \in DOMAIN dict_oneVar \cup DOMAIN dict_twoVar
   /\ ObsStatisticNonzero)
    => /\ last.res.outcome = "returned"
       /\ \E box1, box2 \in DOMAIN dict_reference_regions \cup {""} :
            last.res.trace =
              Invocation(last.cm.metric, last.cm.modelFile1, last.cm.modelVarName1,
                         last.cm.modelFile2, last.cm.modelVarName2, box1, box2, last.om).trace
              \o Invocation(last.cm.metric, last.cm.obsFile1, last.cm.obsVarName1,
                            last.cm.obsFile2, last.cm.obsVarName2, box1, box2, last.oo).trace

\* The region the call is to hand to the metric function for the first
\* variable: the caller's regionVar1, or else the region the collection
\* gives for the metric's first variable.
ExpectedRegion1 ==
  IF last.cm.regionVar1 # ""
    THEN last.cm.regionVar1
    ELSE LET spec == metrics_collection[last.cm.MetricCollection].metrics_list[last.cm.metric]
         IN  spec.regions[spec.variables[1]]

\* Every field the call read was read over the given region.
ReadsOver(tr, box) ==
  /\ \E i \in 1..Len(tr) : tr[i].fn = "ReadAndSelectRegion"
  /\ \A i \in 1..Len(tr) : tr[i].fn = "ReadAndSelectRegion" => tr[i].box = box

\* C11: the region ComputeMetric passes to the metric function for a
\* variable is the caller's override when one is given and the
\* collection's region for that variable otherwise (the metrics that a
\* collection offers and a registry holds have one variable).
C11_RegionOverrideOrDefault ==
  (/\ IsComputeMetric
   /\ CollectionOffersMetric
   /\ last.cm.metric \in DOMAIN dict_oneVar
   /\ ObsStatisticNonzero)
    => /\ last.res.outcome = "returned"
       /\ ReadsOver(last.res.trace, ExpectedRegion1)

\* C12: whatever calls came before, the accessors return the catalogs as
\* written in the source, and a ComputeMetric call without overrides reads
\* over the collection's default region.
C12_OverrideLeavesCatalogsAlone ==
  /\ (IsAccessor /\ last.arg = PyTrue) => last.res.value = Catalog
  /\ last.op = "CmipVariables" => last.res.value = dict_cmip_variables
  /\ (/\ IsComputeMetric
      /\ CollectionOffersMetric
      /\ last.cm.metric \in DOMAIN dict_oneVar
      /\ ObsStatisticNonzero
      /\ last.cm.regionVar1 = "" /\ last.cm.regionVar2 = "")
       => /\ last.res.outcome = "returned"
          /\ ReadsOver(last.res.trace, ExpectedRegion1)

LookupFails ==
  \/ ~Bound("defCollection", last.cm)
  \/ ~Bound("metricReqs", last.cm)
  \/ ~CollectionOffersMetric

ResultFields ==
  {"name", "metric", "metric_error", "model", "observations", "nyears_model",
   "nyears_observations", "units", "method", "ref"}

IsTwoVarCall == last.op \in DOMAIN dict_twoVar

\* The regression kernel's calls in a trace, in order.
Regressions(tr) == SelectSeq(tr, LAMBDA e : e.fn = "get_slope_linear_regression_from_anomaly")

\* The three regressions of one second field onto the SST field of the
\* call, with the sign filters 0, 1, -1.
ThreeRegressionsOntoSst ==
  LET g == Regressions(last.res.trace)
  IN  /\ Len(g) = 3
      /\ <<g[1].sign, g[2].sign, g[3].sign>> = <<0, 1, -1>>
      /\ g[2].y = g[1].y /\ g[3].y = g[1].y
      /\ \A i \in 1..3 :
           g[i].x.terms = <<Term(1, last.cm.file1, last.cm.name1, last.cm.box1)>>

\* The record of a regression metric for slopes and errors multiplied by k.
RegressionValues(k) ==
  LET o == last.om
      r == last.res.value
  IN  /\ r.value = RatMul(o.reg[0][1], Int2Rat(k))
      /\ r.value_error = RatMul(o.reg[0][2], Int2Rat(k))
      /\ r.nonlinearity = RatMul(RatSub(o.reg[-1][1], o.reg[1][1]), Int2Rat(k))
      /\ r.nonlinearity_error = RatMul(RatAdd(o.reg[-1][2], o.reg[1][2]), Int2Rat(k))

\* C16 as stated: a regression metric function that returns has run the
\* three regressions (all, positive, negative) of the second field onto
\* the SST and returns the all-points slope and standard error, the
\* negative minus the positive slope and the sum of their errors.
C16_RegressionValues ==
  (IsTwoVarCall /\ last.res.outcome = "returned")
    => ThreeRegressionsOntoSst /\ RegressionValues(1)

\* C16 as amended: as stated for EnsoAlphaLhf, EnsoAlphaLwr, EnsoAlphaSwr
\* and EnsoAlphaThf; EnsoMu returns the same four quantities multiplied by
\* 1000, its unit being 10-3 N/m2/C.
C16_RegressionValuesScaled ==
  (IsTwoVarCall /\ last.res.outcome = "returned")
    => /\ ThreeRegressionsOntoSst
       /\ RegressionValues(IF last.op = "EnsoMu" THEN 1000 ELSE 1)

C16_Witness ==
  /\ last.op = "EnsoMu"
  /\ last.res.outcome = "returned"
  /\ last.om.reg[1][1] = Q(3, 2) /\ last.om.reg[-1][1] = Q(2, 1)
  /\ last.res.value.nonlinearity = Q(500, 1)
  /\ Len(Regressions(last.res.trace)) = 3

IsMetricFunctionCall == last.op \in RegisteredMetrics

\* The files of the call that hold a temperature: the SST file, and for
\* EnsoRMSE the observed SST file as well.
TemperatureFiles ==
  IF last.op = "EnsoRMSE" THEN {last.cm.file1, last.cm.file2} ELSE {last.cm.file1}

IsTemperature(field) == \E i \in 1..Len(field.terms) : field.terms[i].file \in TemperatureFiles

IsKernelCall(e) == e.fn \notin {"ReadAndSelectRegion", "CheckUnits"}

\* The fields a statistics kernel was called on.
FieldsOf(e) ==
  IF "x" \in DOMAIN e THEN {e.x, e.y}
  ELSE IF "model" \in DOMAIN e THEN {e.model, e.obs}
  ELSE {e.field}

\* C17: on every path of every metric function, a temperature field that
\* reaches a statistics kernel went through CheckUnits(field, 'temperature')
\* earlier in the call.
C17_TemperatureCheckedBeforeKernels ==
  IsMetricFunctionCall
    => \A j \in 1..Len(last.res.trace) :
         IsKernelCall(last.res.trace[j])
           => \A f \in FieldsOf(last.res.trace[j]) :
                IsTemperature(f)
                  => /\ f.units = "temperature"
                     /\ \E i \in 1..(j - 1) :
                          /\ last.res.trace[i].fn = "CheckUnits"
                          /\ last.res.trace[i].kind = "temperature"
                          /\ last.res.trace[i].field.terms = f.terms

C17_Witness ==
  /\ last.op = "EnsoRMSE"
  /\ last.res.outcome = "returned"
  /\ \E j \in 1..Len(last.res.trace) :
       /\ last.res.trace[j].fn = "ComputeRms"
       /\ IsTemperature(last.res.trace[j].model) /\ IsTemperature(last.res.trace[j].obs)
       /\ last.res.trace[j].obs.units = "temperature"

\* C18: a regression metric function called with one file for each field
\* returns, and never calls the regression kernel on two fields whose time
\* axes differ in length (fields of different lengths are aligned first).
C18_RegressionOnEqualLengths ==
  (IsTwoVarCall /\ last.cm.file2.t = "str")
    => /\ last.res.outcome = "returned"
       /\ \A j \in 1..Len(last.res.trace) :
            last.res.trace[j].fn = "get_slope_linear_regression_from_anomaly"
              => last.res.trace[j].y.len = last.res.trace[j].x.len

\* C19: the record ComputeMetric returns for a metric of dict_oneVar or
\* dict_twoVar has the ten named fields, and its year counts are those of
\* the model invocation and of the observation invocation.
C19_RecordFieldsAndYears ==
  (/\ IsComputeMetric
   /\ last.cm.MetricCollection \in DOMAIN metrics_collection
   /\ last.cm.metric \in DOMAIN dict_oneVar \cup DOMAIN dict_twoVar
   /\ ObsStatisticNonzero)
    => /\ last.res.outcome = "returned"
       /\ {"name", "metric", "metric_error", "value_model", "value_error_model",
           "value_observations", "value_error_observations", "units", "method", "ref"}
            \subseteq DOMAIN last.res.value
       /\ last.res.value.nyears_model = last.om.len1 \div 12
       /\ last.res.value.nyears_observations = last.oo.len1 \div 12

\* d degrees in the unit of the region table (tenths of a degree).
Degrees(d) == 10 * d

WellFormedRegion(r) ==
  /\ r.latitude[1] < r.latitude[2]
  /\ r.longitude[1] < r.longitude[2]
  /\ Degrees(-90) <= r.latitude[1] /\ r.latitude[2] <= Degrees(90)

\* C20: every region ReferenceRegions returns, alone or in the whole
\* table, has its south bound below its north bound, its west bound below
\* its east bound, and both latitudes within -90..90.
C20_RegionBoundsOrdered ==
  (last.op = "ReferenceRegions" /\ last.res.outcome = "returned")
    => IF last.arg = PyTrue
         THEN \A r \in DOMAIN last.res.value : WellFormedRegion(last.res.value[r])
         ELSE WellFormedRegion(last.res.value)

C20_Witness ==
  /\ last.op = "ReferenceRegions"
  /\ last.arg = PyTrue
  /\ last.res.outcome = "returned"
  /\ Cardinality(DOMAIN last.res.value) = Cardinality(DOMAIN dict_reference_regions)
  /\ last.res.value["global2"].latitude = <<Degrees(-90), Degrees(90)>>

\* The collections a defCollection call returned: all of them, or the one
\* asked for.
ReturnedCollections ==
  IF last.arg = PyTrue THEN {last.res.value[c] : c \in DOMAIN last.res.value}
  ELSE {last.res.value}

ReturnedByDefCollection == last.op = "defCollection" /\ last.res.outcome = "returned"

\* C21: every dataset a metric of a returned collection names for a
\* variable is a key of ReferenceObservations(), and that dataset's
\* variable_name_in_file has an entry for the variable.
C21_ObsNamesResolve ==
  ReturnedByDefCollection
    => \A coll \in ReturnedCollections :
         \A m \in DOMAIN coll.metrics_list :
           LET obs_name == coll.metrics_list[m].obs_name
               datasets == ReferenceObservations(PyTrue).value
           IN  \A v \in DOMAIN obs_name :
                 \A i \in 1..Len(obs_name[v]) :
                   /\ obs_name[v][i] \in DOMAIN datasets
                   /\ v \in DOMAIN datasets[obs_name[v][i]].variable_name_in_file

\* The variable tables a call of CmipVariables or ReferenceObservations
\* returned: the one of the CMIP catalog, or one per dataset.
ReturnedVariableTables ==
  IF last.op = "CmipVariables" THEN {last.res.value.variable_name_in_file}
  ELSE IF last.arg = PyTrue
    THEN {last.res.value[d].variable_name_in_file : d \in DOMAIN last.res.value}
  ELSE {last.res.value.variable_name_in_file}

ReturnedVariables ==
  last.op \in {"CmipVariables", "ReferenceObservations"} /\ last.res.outcome = "returned"

\* Expanding name through the table tab ends at stored fields within n
\* steps: a name that is no key of tab, or whose entry is a single name, is
\* a stored field; the terms of a composite entry are expanded in turn.
RECURSIVE ExpandsWithin(_, _, _)
ExpandsWithin(tab, name, n) ==
  IF name \notin DOMAIN tab \/ tab[name].var_name.t = "str" THEN TRUE
  ELSE /\ n > 0
       /\ \A i \in 1..Len(tab[name].var_name.l) : ExpandsWithin(tab, tab[name].var_name.l[i], n - 1)

\* C22: in every returned variable table, expanding any entry reaches
\* stored fields only, within as many steps as the table has entries: no
\* composite leads back to itself.
C22_CompositesExpandFinitely ==
  ReturnedVariables
    => \A tab \in ReturnedVariableTables :
         \A v \in DOMAIN tab : ExpandsWithin(tab, v, Cardinality(DOMAIN tab))

C22_Witness ==
  /\ last.op = "CmipVariables"
  /\ last.res.outcome = "returned"
  /\ LET tab == last.res.value.variable_name_in_file
     IN  /\ tab["thf"].var_name.t = "list" /\ Len(tab["thf"].var_name.l) = 6
         /\ ExpandsWithin(tab, "thf", 1)
         /\ ~ExpandsWithin(tab, "thf", 0)

\* C23: in every returned variable table, an entry whose var_name is a
\* list has at least one term and as many signs as terms, each 'plus' or
\* 'minus', and an entry whose var_name is one name has no signs.
C23_CompositeSignsMatchTerms ==
  ReturnedVariables
    => \A tab \in ReturnedVariableTables :
         \A v \in DOMAIN tab :
           IF tab[v].var_name.t = "list"
             THEN /\ Len(tab[v].var_name.l) >= 1
                  /\ "algebric_calculation" \in DOMAIN tab[v]
                  /\ Len(tab[v].algebric_calculation) = Len(tab[v].var_name.l)
                  /\ \A i \in 1..Len(tab[v].algebric_calculation) :
                       tab[v].algebric_calculation[i] \in {"plus", "minus"}
             ELSE "algebric_calculation" \notin DOMAIN tab[v]

C23_Witness ==
  /\ last.op = "ReferenceObservations"
  /\ last.arg = PyStr("NCEP2")
  /\ last.res.outcome = "returned"
  /\ LET tab == last.res.value.variable_name_in_file
     IN  /\ tab["thf"].var_name.l = <<"lhtfl", "shtfl", "dlwrf", "ulwrf", "dswrf", "uswrf">>
         /\ tab["thf"].algebric_calculation = <<"plus", "plus", "plus", "minus", "plus", "minus">>
         /\ tab["sst"].var_name.t = "str"

\* C24: EnsoRMSE returns the model field's time steps over 12 as
\* nyears_model and the observation field's time steps over 12 as
\* nyears_obs, whatever the two lengths.
C24_RmseYearsOfEachField ==
  (last.op = "EnsoRMSE" /\ last.res.outcome = "returned")
    => /\ last.res.value.nyears_model = last.om.len1 \div 12
       /\ last.res.value.nyears_obs = last.oo.len1 \div 12

\* C25: EnsoSeasonality returns value = std_NDJ / std_MAM and, with dx and
\* dz the standard errors it computes for the two, value_error =
\* (std_MAM * dx + std_NDJ * dz) / std_MAM^2.
C25_SeasonalityQuotientError ==
  (/\ last.op = "EnsoSeasonality"
   /\ last.res.outcome = "returned"
   /\ last.om.len1 >= 24
   /\ ~IsZero(last.om.stdMAM))
    => LET x     == last.om.stdNDJ
           z     == last.om.stdMAM
           yearN == last.om.len1 \div 12
           dx    == NumpyDiv(x, NUMPYsqrt(yearN - 1))
           dz    == NumpyDiv(z, NUMPYsqrt(yearN))
       IN  /\ last.res.value.value = NumpyDiv(x, z)
           /\ last.res.value.value_error =
                NumpyDiv(RatAdd(RatMul(z, dx), RatMul(x, dz)), RatMul(z, z))

\* The catalog variable a regression function takes as its second field.
SecondVariable ==
  CASE last.op = "EnsoAlphaLwr" -> "lwr"
    [] last.op = "EnsoAlphaSwr" -> "swr"
    [] last.op = "EnsoAlphaThf" -> "thf"

SignOf(word) == IF word = "minus" THEN -1 ELSE 1

\* C26: called with the list of terms the catalog gives for its second
\* variable, EnsoAlphaLwr, EnsoAlphaSwr or EnsoAlphaThf regresses the sum
\* of the terms in order, each with the sign the catalog declares.
C26_CompositeIsSignedSum ==
  (/\ last.op \in {"EnsoAlphaLwr", "EnsoAlphaSwr", "EnsoAlphaThf"}
   /\ last.cm.file2.t = "list"
   /\ last.cm.name2.l = CmipVariables.value.variable_name_in_file[SecondVariable].var_name.l)
    => LET entry == CmipVariables.value.variable_name_in_file[SecondVariable]
           g     == Regressions(last.res.trace)
       IN  /\ last.res.outcome = "returned"
           /\ Len(g) = 3
           /\ \A j \in 1..3 :
                g[j].y.terms =
                  [i \in 1..Len(entry.var_name.l) |->
                     Term(SignOf(entry.algebric_calculation[i]), FStr(last.cm.file2.l[i]),
                          FStr(last.cm.name2.l[i]), last.cm.box2)]

\* The members of a list.
Members(list) == {list[i] : i \in 1..Len(list)}

\* The region names a metric uses: its variables' regions and the region
\* of its event definition, when it has one.
RegionNames(metric) ==
  {metric.regions[v] : v \in DOMAIN metric.regions}
  \cup (IF "event_definition" \in DOMAIN metric THEN {metric.event_definition.region_ev} ELSE {})

\* C27: in every returned collection, a metric's regions are keyed by its
\* one or two variables, and every region name the metric uses is a key of
\* ReferenceRegions().
C27_RegionsPerVariableAndKnown ==
  ReturnedByDefCollection
    => \A coll \in ReturnedCollections :
         \A m \in DOMAIN coll.metrics_list :
           LET metric == coll.metrics_list[m]
           IN  /\ DOMAIN metric.regions = Members(metric.variables)
               /\ Cardinality(Members(metric.variables)) \in {1, 2}
               /\ RegionNames(metric) \subseteq DOMAIN ReferenceRegions(PyTrue).value

C27_Witness ==
  /\ ReturnedByDefCollection
  /\ last.arg = PyStr("ENSO_tel")
  /\ LET metric == last.res.value.metrics_list["EnsoPrMapDjf"]
     IN  /\ metric.variables = <<"sst", "pr">>
         /\ metric.regions = ("pr" :> "global" @@ "sst" :> "nino3.4")
         /\ metric.event_definition.region_ev = "nino3.4"
         /\ ReferenceRegions(PyStr("nino3.4")).outcome = "returned"

\* C28: in every returned collection, a metric's obs_name is keyed by its
\* variables, and every variable has at least one dataset.
C28_ObsNamesPerVariable ==
  ReturnedByDefCollection
    => \A coll \in ReturnedCollections :
         \A m \in DOMAIN coll.metrics_list :
           LET metric == coll.metrics_list[m]
           IN  /\ DOMAIN metric.obs_name = Members(metric.variables)
               /\ \A v \in DOMAIN metric.obs_name : Len(metric.obs_name[v]) >= 1

\* C29: in every returned collection, plot_order names metrics of the
\* collection's metrics_list only, each at most once.
C29_PlotOrderWithinMetricsList ==
  ReturnedByDefCollection
    => \A coll \in ReturnedCollections :
         /\ Members(coll.plot_order) \subseteq DOMAIN coll.metrics_list
         /\ Cardinality(Members(coll.plot_order)) = Len(coll.plot_order)

\* The fewest monthly time steps the collections accept.
min_time_steps == metrics_collection["ENSO_perf"].common_collection_parameters.min_time_steps

\* C30: on a series of at least min_time_steps monthly steps, EnsoAmpl and
\* EnsoSeasonality divide by the square roots of numbers that are at least
\* 1 (the year count, and for EnsoSeasonality the year count less one), so
\* that the standard error of a nonzero deviation is finite.
C30_ErrorDivisorsNonzero ==
  (/\ last.op \in {"EnsoAmpl", "EnsoSeasonality"}
   /\ last.res.outcome = "returned"
   /\ last.om.len1 >= min_time_steps)
    => /\ last.res.value.nyears >= 1
       /\ last.op = "EnsoSeasonality" => last.res.value.nyears - 1 >= 1
       /\ (last.op = "EnsoAmpl" \/ ~IsZero(last.om.stdMAM)) => IsFinite(last.res.value.value_error)

=============================================================================
